---- MODULE Spec2Model ----
\* scribble: incremental segment transcription over a growing 16 kHz sample
\* buffer (src/src/incremental.rs) and the bounded chunk channel between the
\* decoder thread and the consumer (src/src/scribble.rs, src/src/samples_rx.rs).
\*
\* Spec        : BufferedSegmentTranscriber driven by on_samples / finish.
\* SpecChannel : decoder thread, sync_channel(512), consumer receive loop.
\* SpecOrch    : Scribble::transcribe, the calls it makes and the errors it merges.
\* SpecEncoder : JsonArrayEncoder / VttEncoder over a writer that may fail.
\* SpecSmall   : the transcriber fed with chunks of a few samples.
\* SpecEmpty   : Scribble::transcribe of an input without audio, real encoder.
\* SpecVad     : VadStreamReceiver over its VadStream (src/src/vad/stream.rs).
\* SpecPipe    : AudioPipeline (src/src/audio_pipeline.rs).
\* SpecChannelFair : SpecChannel with a scheduled decoder thread.
\* SpecOrchVad, SpecChannelVad : the same two with a VadStreamReceiver as rx.
\* SpecPipeRx  : PipeReceiver::recv (src/src/pipe_reader/receiver.rs).
\* SpecPrefix  : get_prefix_bytes (src/src/bin/scribble-server/main.rs).
\*
\* Sample contents never influence control flow, so a buffer is modelled by its
\* length.  Times written to the encoder are IEEE-754 single precision values,
\* modelled bit-exactly as [m, e] = m * 2^(e-23) with round-to-nearest-even.
EXTENDS Integers, Sequences, FiniteSets, TLC

VARIABLES
    \* ---- Opts (src/src/opts.rs)
    opts,
    \* ---- BufferedSegmentTranscriber fields (src/src/incremental.rs:36-53)
    samples_len,            \* samples.len()
    head,
    advanced_samples,
    next_infer_at_samples,
    no_progress_runs,
    \* ---- the caller's position and what it has observed
    phase,                  \* "live" | "finishing" | "finished" | "failed"
    n_chunks,               \* on_samples calls made so far
    last_chunk,             \* length of the chunk of the last on_samples call
    total_samples,          \* samples handed to on_samples so far
    backend_calls,          \* run_whisper_full invocations so far
    finish_calls,           \* run_whisper_full invocations made by finish()
    finish_first_win,       \* window length finish() started with
    last_pass,              \* what the last process_available call did
    emitted,                \* segments written to the encoder by the last call
    prev_last,              \* <<last segment written before the last call>>, if any
    \* ---- channel between decoder thread and consumer (src/src/scribble.rs)
    queue,                  \* chunks buffered in the sync_channel
    tx_state,               \* "decoding" | "sending" | "done" | "failed"
    tx_sent,                \* chunks the decoder thread's send() has delivered
    rx_state,               \* "receiving" | "disconnected" | "dropped" | "joining" | "returned"
    rx_count,               \* chunks the consumer has received
    rx_last,                \* the last chunk the consumer received
    sink_ret,               \* what ChannelSamplesSink::on_samples last returned
    \* ---- Scribble::transcribe (src/src/scribble.rs:84-146)
    o_pc,                   \* position of the consumer (orchestrating) thread
    o_dec,                  \* decoder thread: "running", or how it ended
    o_queue,                \* chunks waiting in the channel
    o_made,                 \* chunks the decoder thread has sent
    o_log,                  \* calls made on the stream and the encoder, in order
    o_stopped,              \* some stream.on_samples call returned Ok(false)
    o_after_stop,           \* a chunk was delivered after such a call
    o_finish_res,           \* result of stream.finish()
    o_decode_res,           \* result of decode_handle.join()
    o_run_res,              \* result of transcribe_with_encoder
    o_close_res,            \* result of encoder.close()
    o_result,               \* result of transcribe
    \* ---- JsonArrayEncoder / VttEncoder over a writer that may fail
    e_kind,                 \* "none" | "json" | "vtt"
    e_out,                  \* what the writer has accepted, as tokens
    e_started,
    e_first,
    e_closed,
    e_ops,                  \* calls made on the encoder and what they returned
    e_before,               \* output and fields as they were before the last call
    e_failed,               \* the writer has failed at least once
    \* ---- VadStreamReceiver and its VadStream (src/src/vad/stream.rs)
    v_emit,                 \* emit_frames; 0 before VadStreamReceiver::new
    v_in,                   \* in_buf.len()
    v_tail,                 \* pending_tail.len()
    v_out,                  \* out_buf.len()
    v_cursor,               \* out_cursor
    v_flushed,
    v_inner,                \* the input channel: "open" | "closed"
    v_sent,                 \* chunks the input channel has carried
    v_received,             \* samples pushed into the VAD stream
    v_delivered,            \* samples recv has returned
    v_ret,                  \* what recv last returned
    v_shorts,               \* returned chunks shorter than emit_frames
    v_flush_calls,          \* calls of VadStream::flush
    v_speech,               \* some VAD pass detected speech
    v_vad_failed,           \* some VAD pass failed
    v_hist,                 \* which input samples the buffers hold (see VadSelf)
    v_last,                 \* the last VadStream call recv made, and whether it returned Ok
    \* ---- AudioPipeline (src/src/audio_pipeline.rs)
    p_cfg,                  \* sample rate of the decoded stream and chunk length asked for
    p_resampler,            \* self.resampler.is_some()
    p_acc,                  \* mono_src_acc.len()
    p_calls,                \* calls made on the pipeline
    p_last,                  \* the last call: its input, the chunks it emitted, its result
    \* ---- PipeReceiver (src/src/pipe_reader/receiver.rs) and its channel
    r_pc,                   \* "new" | "idle" | "fill" | "check": where recv is
    r_min,                  \* min_items
    r_queue,                \* lengths of the chunks waiting in the channel
    r_tx,                   \* the sender: "open" | "closed"
    r_sent,                 \* chunks sent so far
    r_in,                   \* in_buf.len()
    r_eof,
    r_ret,                  \* what recv last returned
    r_calls,                \* calls of recv
    r_fed,                  \* items recv took from the channel, items it handed to process_items
    \* ---- get_prefix_bytes (src/src/bin/scribble-server/main.rs)
    b_body,                 \* the items of the request body stream
    b_max,                  \* max_probe_bytes
    b_res,                  \* what get_prefix_bytes returned
    b_read                  \* what the reader chained from prefix_chunks and the stream has read

inc_vars == <<opts, samples_len, head, advanced_samples, next_infer_at_samples,
              no_progress_runs, phase, n_chunks, last_chunk, total_samples,
              backend_calls,
              finish_calls, finish_first_win, last_pass, emitted, prev_last>>
chan_vars == <<queue, tx_state, tx_sent, rx_state, rx_count, rx_last, sink_ret>>
orch_vars == <<o_pc, o_dec, o_queue, o_made, o_log, o_stopped, o_after_stop,
               o_finish_res, o_decode_res, o_run_res, o_close_res, o_result>>
enc_vars == <<e_kind, e_out, e_started, e_first, e_closed, e_ops, e_before,
              e_failed>>
vad_vars == <<v_emit, v_in, v_tail, v_out, v_cursor, v_flushed, v_inner, v_sent,
              v_received, v_delivered, v_ret, v_shorts, v_flush_calls, v_speech,
              v_vad_failed, v_hist, v_last>>
pipe_vars == <<p_cfg, p_resampler, p_acc, p_calls, p_last>>
rx_vars == <<r_pc, r_min, r_queue, r_tx, r_sent, r_in, r_eof, r_ret, r_calls, r_fed>>
prefix_vars == <<b_body, b_max, b_res, b_read>>
io_vars == <<rx_vars, prefix_vars>>
vars == <<inc_vars, chan_vars, orch_vars, enc_vars, vad_vars, pipe_vars, io_vars>>

-----------------------------------------------------------------------------
\* Program constants

WHISPER_SAMPLE_RATE == 16000
DEFAULT_MIN_BUFFER_SECONDS == 1
DEFAULT_MAX_BUFFER_SECONDS == 30
MAX_BACKOFF_SHIFT == 4
CHANNEL_BOUND == 512
SAMPLE_RATE_HZ == 16000
TARGET_SAMPLE_RATE == 16000
in_chunk_src_frames == 2048
DEFAULT_VAD_POLICY == [pre_pad_ms |-> 250, post_pad_ms |-> 250,
                       min_speech_ms |-> 250, gap_merge_ms |-> 300]

\* Bounds of the model

MaxChunks == 2            \* on_samples calls per transcription
MaxSegments == 2          \* segments the backend returns per inference
MaxOvershootCs == 100      \* how far past the window end a timestamp may lie
MaxSends == 514           \* chunks the decoder thread produces
MaxRecvs == 16            \* chunks the consumer takes before it stalls
MaxBackendCalls == 3      \* inference runs per transcription
MaxOrchChunks == 2        \* chunks the decoder thread sends in a transcribe call
MaxEncOps == 4            \* write_segment and close calls made on an encoder
MaxSmallChunk == 3        \* longest chunk of the short-chunk transcriber runs
MaxVadChunks == 3         \* chunks the input channel of the VAD receiver carries
MaxPipeCalls == 2         \* packets pushed into an audio pipeline
MaxPipeRxChunks == 3      \* chunks sent to a PipeReceiver
MaxPipeRxCalls == 3       \* calls of PipeReceiver::recv
MaxBodyChunks == 3        \* items of a request body stream
MaxChunkBytes == 3        \* bytes of one body chunk
MaxProbeBytes == 4        \* the largest max_probe_bytes tried

\* chunk lengths handed to on_samples
ChunkSizes == {15999, 480000}
\* centisecond timestamps the backend reports
TsChoices == {0, 80, 3100}
\* the Opts of a transcription: the defaults of the CLI, and a low-latency
\* configuration that sets both incremental options
OptsChoices ==
    {[emit_single_segments |-> FALSE, incremental_min_window_seconds |-> 1],
     [emit_single_segments |-> TRUE, incremental_min_window_seconds |-> 2]}

\* Op applied to the value of v, which is evaluated once
With(v, Op(_)) == CHOOSE y \in {Op(x) : x \in {v}} : TRUE

Min(a, b) == IF a <= b THEN a ELSE b
Max(a, b) == IF a >= b THEN a ELSE b

-----------------------------------------------------------------------------
\* IEEE-754 binary32 arithmetic on non-negative values below 2^23.
\* A value is [m, e] with m in [2^23, 2^24) standing for m * 2^(e-23); zero is
\* [0, 0].

F32_ZERO == [m |-> 0, e |-> 0]

\* q holds 24 bits and one guard bit; sticky tells whether lower bits were non-zero
F32RoundGuard(q, sticky, e) ==
    LET m0 == q \div 2
        up == q % 2 = 1 /\ (sticky \/ m0 % 2 = 1)
        m1 == IF up THEN m0 + 1 ELSE m0
    IN IF m1 = 2^24 THEN [m |-> 2^23, e |-> e + 1] ELSE [m |-> m1, e |-> e]

\* q >= 2^24 holds the leading bits of a value q * 2^(e-24): cut q down to 25 bits
F32Cut(q, sticky, e) ==
    IF q >= 2^27 THEN F32RoundGuard(q \div 8, sticky \/ q % 8 # 0, e + 3)
    ELSE IF q >= 2^26 THEN F32RoundGuard(q \div 4, sticky \/ q % 4 # 0, e + 2)
    ELSE IF q >= 2^25 THEN F32RoundGuard(q \div 2, sticky \/ q % 2 # 0, e + 1)
    ELSE F32RoundGuard(q, sticky, e)

RECURSIVE F32Norm(_, _, _, _)
\* long division of p by d, four bits a step: the quotient so far is q, the
\* remainder r, and p / d = (q + r/d) * 2^(e-24)
F32Norm(q, r, d, e) ==
    IF q >= 2^24 THEN F32Cut(q, r # 0, e)
    ELSE F32Norm(16 * q + ((16 * r) \div d), (16 * r) % d, d, e - 4)

\* `p as f32 / d as f32` for integers 0 <= p < 2^24, 0 < d < 2^24 (both exact in f32)
F32Div(p, d) ==
    IF p = 0 THEN F32_ZERO ELSE F32Norm(p \div d, p % d, d, 24)

F32Leq(a, b) ==
    \/ a.m = 0
    \/ b.m # 0 /\ (a.e < b.e \/ (a.e = b.e /\ a.m <= b.m))

\* `a + b` in f32
F32Add(a, b) ==
    IF a.m = 0 THEN b
    ELSE IF b.m = 0 THEN a
    ELSE LET hi == IF F32Leq(b, a) THEN a ELSE b
             lo == IF F32Leq(b, a) THEN b ELSE a
             d  == hi.e - lo.e
             A  == hi.m * 4
             B  == IF d <= 2 THEN lo.m * 2^(2 - d)
                   ELSE IF d >= 27 THEN 0 ELSE lo.m \div 2^(d - 2)
             st == IF d <= 2 THEN FALSE
                   ELSE IF d >= 27 THEN TRUE ELSE lo.m % 2^(d - 2) # 0
             T  == A + B
         IN IF T >= 2^26
            THEN F32RoundGuard(T \div 4, st \/ (T % 4 # 0), hi.e + 1)
            ELSE F32RoundGuard(T \div 2, st \/ (T % 2 = 1), hi.e)

-----------------------------------------------------------------------------
\* Segments

\* `cs as f32 / 100.0` for the timestamps the backend reports, computed once
CsSeconds == [cs \in TsChoices |-> F32Div(cs, 100)]

\* token.rs: whisper uses -1 for unknown; clamp to 0
centiseconds_to_seconds(value) ==
    IF value < 0 THEN F32_ZERO ELSE CsSeconds[value]

\* token.rs tokens_from_segment: one Token per whisper token
tokens_from_segment(ws) ==
    [i \in 1..Len(ws.tokens) |->
        [start_seconds |-> centiseconds_to_seconds(ws.tokens[i].t0),
         end_seconds   |-> centiseconds_to_seconds(ws.tokens[i].t1)]]

\* segments.rs to_segment: a whisper segment [t0, t1, tokens] (centiseconds)
\* becomes a Segment with times in seconds; raw remembers what it was made from
to_segment(ws) ==
    [start_seconds |-> CsSeconds[ws.t0],
     end_seconds   |-> CsSeconds[ws.t1],
     tokens        |-> tokens_from_segment(ws),
     raw           |-> ws]

\* a shift of the segment's own times that leaves its tokens alone
apply_time_offset_segment_only(segment, offset_seconds) ==
    [segment EXCEPT !.start_seconds = F32Add(@, offset_seconds),
                    !.end_seconds = F32Add(@, offset_seconds)]

apply_time_offset(segment, offset_seconds) ==
    [segment EXCEPT
        !.start_seconds = F32Add(@, offset_seconds),
        !.end_seconds   = F32Add(@, offset_seconds),
        !.tokens = [i \in 1..Len(@) |->
                      [start_seconds |-> F32Add(@[i].start_seconds, offset_seconds),
                       end_seconds   |-> F32Add(@[i].end_seconds, offset_seconds)]]]

offset_seconds_of(advanced) == F32Div(advanced, WHISPER_SAMPLE_RATE)

-----------------------------------------------------------------------------
\* BufferedSegmentTranscriber (src/src/incremental.rs)

\* new(): the window thresholds are fixed at construction
min_window_samples == WHISPER_SAMPLE_RATE * DEFAULT_MIN_BUFFER_SECONDS
max_window_samples == WHISPER_SAMPLE_RATE * DEFAULT_MAX_BUFFER_SECONDS

\* samples.len().saturating_sub(head)
window_len_of(len, h) == Max(len - h, 0)
window_len == window_len_of(samples_len, head)

\* maybe_compact: the buffer length and head after compaction
\* a compaction that resets head without draining the consumed samples
maybe_compact_keep_samples(len, h) ==
    IF h = 0 THEN [samples_len |-> len, head |-> h]
    ELSE [samples_len |-> len, head |-> 0]

maybe_compact(len, h) ==
    IF h = 0 THEN [samples_len |-> len, head |-> h]
    ELSE IF h >= WHISPER_SAMPLE_RATE \/ h >= len \div 2
         THEN [samples_len |-> len - h, head |-> 0]
         ELSE [samples_len |-> len, head |-> h]

\* a threshold whose step does not grow
next_infer_threshold_fixed_step(current_len, min_w, max_w, runs) ==
    Min(current_len + min_w, max_w)

next_infer_threshold(current_len, min_w, max_w, runs) ==
    LET shift    == Min(Max(runs - 1, 0), MAX_BACKOFF_SHIFT)
        step     == min_w * 2^shift
        proposed == current_len + step
    IN Min(proposed, max_w)

\* an end position that may be 0 for a degenerate segment
segment_end_samples_no_floor(end_timestamp_cs, available_samples) ==
    Min((end_timestamp_cs * WHISPER_SAMPLE_RATE) \div 100, available_samples)

\* centiseconds -> samples, clamped into [1, available_samples]
segment_end_samples(end_timestamp_cs, available_samples) ==
    LET e0 == (end_timestamp_cs * WHISPER_SAMPLE_RATE) \div 100
        e1 == IF e0 = 0 THEN 1 ELSE e0
    IN IF e1 > available_samples THEN available_samples ELSE e1

\* a flush forced by a full window only, not by the end of the stream
force_flush_of_full_window(end_of_stream, win_len) ==
    win_len >= max_window_samples

force_flush_of(end_of_stream, win_len) ==
    end_of_stream \/ win_len >= max_window_samples

\* the finalization rule of process_available
\* a rule that finalizes every segment of every pass
emit_count_of_all(force_flush, n_segments) == n_segments

emit_count_of(force_flush, n_segments) ==
    IF force_flush THEN n_segments
    ELSE IF n_segments >= 2 THEN n_segments - 1
    ELSE 0

\* the transcriber's fields as one value
Self == [samples_len |-> samples_len, head |-> head,
         advanced_samples |-> advanced_samples,
         next_infer_at_samples |-> next_infer_at_samples,
         no_progress_runs |-> no_progress_runs]

\* process_available gets past its three early returns and runs the backend
WillInfer(self, end_of_stream) ==
    LET win_len == window_len_of(self.samples_len, self.head)
    IN /\ win_len # 0
       /\ ~(~end_of_stream /\ win_len < min_window_samples)
       /\ ~(~force_flush_of(end_of_stream, win_len)
            /\ win_len < self.next_infer_at_samples)

\* What the backend (whisper full()) may report for a window of win_len samples:
\* at most MaxSegments segments in time order, each with 0 <= t0 <= t1, starting
\* inside the window and ending at most MaxOvershootCs past its end.  A segment
\* carries a text token spanning it and a special token of unknown time (-1).
WhisperSegments(win_len) ==
    {[t0 |-> x[1], t1 |-> x[2],
      tokens |-> <<[t0 |-> x[1], t1 |-> x[2]], [t0 |-> -1, t1 |-> -1]>>] :
        x \in {y \in TsChoices \X TsChoices :
                 /\ y[1] <= y[2]
                 /\ y[1] * (WHISPER_SAMPLE_RATE \div 100) <= win_len
                 /\ y[2] * (WHISPER_SAMPLE_RATE \div 100)
                      <= win_len + MaxOvershootCs * (WHISPER_SAMPLE_RATE \div 100)}}

BackendResults(win_len) ==
    UNION {{f \in [1..k -> WhisperSegments(win_len)] :
                \A i \in 1..(k - 1) : f[i].t1 <= f[i + 1].t0}
           : k \in 0..MaxSegments}

\* One call of process_available(end_of_stream) on the transcriber `self`.  res is
\* what the backend returns; fail says where the call fails: kind "none", "backend"
\* (run_whisper_full errs) or "write" (to_segment / write_segment errs on segment
\* number `at`, counted from 0).
process_available(self, end_of_stream, res, fail) ==
    LET win_len     == window_len_of(self.samples_len, self.head)
        force_flush == force_flush_of(end_of_stream, win_len)
        n_segments  == Len(res)
        emit_count  == emit_count_of(force_flush, n_segments)
        same == [progress |-> "NoOp", self |-> self, written |-> <<>>,
                 pass |-> [ran |-> FALSE, eos |-> end_of_stream, force |-> force_flush,
                           win_len |-> win_len, n |-> 0, emit_count |-> 0,
                           adv0 |-> self.advanced_samples, head0 |-> self.head,
                           runs0 |-> self.no_progress_runs,
                           next0 |-> self.next_infer_at_samples,
                           res |-> <<>>, result |-> "NoOp"]]
        ran  == [same EXCEPT !.pass.ran = TRUE, !.pass.n = n_segments,
                             !.pass.res = res]
        backoff == [ran EXCEPT
                      !.self.no_progress_runs = self.no_progress_runs + 1,
                      !.self.next_infer_at_samples =
                          next_infer_threshold(win_len, min_window_samples,
                                               max_window_samples,
                                               self.no_progress_runs + 1)]
        offset_seconds == offset_seconds_of(self.advanced_samples)
        segs == With(offset_seconds,
                     LAMBDA off : [i \in 1..emit_count |->
                                     apply_time_offset(to_segment(res[i]), off)])
        end_samples == segment_end_samples(res[emit_count].t1, win_len)
        compacted   == maybe_compact(self.samples_len, self.head + end_samples)
    IN IF ~WillInfer(self, end_of_stream) THEN same
       ELSE IF fail.kind = "backend"
            THEN [same EXCEPT !.progress = "Err", !.pass.ran = TRUE,
                              !.pass.result = "Err"]
       ELSE IF n_segments <= 0
            THEN IF ~force_flush THEN backoff ELSE ran
       ELSE IF emit_count = 0 THEN backoff
       ELSE IF fail.kind = "write" /\ fail.at < emit_count
            THEN [ran EXCEPT !.progress = "Err", !.pass.result = "Err",
                             !.pass.emit_count = emit_count,
                             !.written = SubSeq(segs, 1, fail.at)]
       ELSE [progress |-> "Advanced",
             self |-> [samples_len |-> compacted.samples_len,
                       head |-> compacted.head,
                       advanced_samples |-> self.advanced_samples + end_samples,
                       next_infer_at_samples |->
                           IF ~force_flush
                           THEN window_len_of(compacted.samples_len, compacted.head)
                                    + min_window_samples
                           ELSE min_window_samples,
                       no_progress_runs |-> 0],
             written |-> segs,
             pass |-> [ran |-> TRUE, eos |-> end_of_stream, force |-> force_flush,
                       win_len |-> win_len, n |-> n_segments,
                       emit_count |-> emit_count,
                       adv0 |-> self.advanced_samples, head0 |-> self.head,
                       runs0 |-> self.no_progress_runs,
                       next0 |-> self.next_infer_at_samples,
                       res |-> res, result |-> "Advanced"]]

NoFailure == [kind |-> "none", at |-> 0]

\* The environment of one process_available call that runs the backend: the
\* backend fails, or it returns res and the call then fails at one of the
\* segments it writes, or not at all.
Outcomes(win_len, force_flush) ==
    {[res |-> <<>>, fail |-> [kind |-> "backend", at |-> 0]]}
    \cup UNION {{[res |-> res, fail |-> NoFailure]}
                \cup {[res |-> res, fail |-> [kind |-> "write", at |-> k]] :
                        k \in 0..(emit_count_of(force_flush, Len(res)) - 1)}
                : res \in BackendResults(win_len)}

\* process_available with its environment: no choice when it returns early
Step(self, end_of_stream) ==
    LET win_len == window_len_of(self.samples_len, self.head)
    IN IF ~WillInfer(self, end_of_stream)
       THEN {process_available(self, end_of_stream, <<>>, NoFailure)}
       ELSE IF backend_calls >= MaxBackendCalls THEN {}
       ELSE {process_available(self, end_of_stream, o.res, o.fail) :
                o \in Outcomes(win_len, force_flush_of(end_of_stream, win_len))}

\* the state a process_available call leaves behind, and what it wrote
Apply(r) ==
    /\ samples_len' = r.self.samples_len
    /\ head' = r.self.head
    /\ advanced_samples' = r.self.advanced_samples
    /\ next_infer_at_samples' = r.self.next_infer_at_samples
    /\ no_progress_runs' = r.self.no_progress_runs
    /\ last_pass' = r.pass
    /\ emitted' = r.written
    /\ prev_last' = IF emitted # <<>>
                    THEN <<[start_seconds |-> emitted[Len(emitted)].start_seconds,
                            end_seconds |-> emitted[Len(emitted)].end_seconds]>>
                    ELSE prev_last
    /\ backend_calls' = backend_calls + (IF r.pass.ran THEN 1 ELSE 0)

-----------------------------------------------------------------------------
ChanInit ==
    /\ queue = <<>>
    /\ tx_state = "decoding"
    /\ tx_sent = 0
    /\ rx_state = "receiving"
    /\ rx_count = 0
    /\ rx_last = 0
    /\ sink_ret = "none"

NoPass == [ran |-> FALSE, eos |-> FALSE, force |-> FALSE, win_len |-> 0, n |-> 0,
           emit_count |-> 0, adv0 |-> 0, head0 |-> 0, runs0 |-> 0,
           next0 |-> 0, res |-> <<>>, result |-> "NoOp"]

\* BufferedSegmentTranscriber::new
IncInit ==
    /\ opts \in OptsChoices
    /\ samples_len = 0
    /\ head = 0
    /\ advanced_samples = 0
    /\ next_infer_at_samples = min_window_samples
    /\ no_progress_runs = 0
    /\ phase = "live"
    /\ n_chunks = 0
    /\ last_chunk = 0
    /\ total_samples = 0
    /\ backend_calls = 0
    /\ finish_calls = 0
    /\ finish_first_win = 0
    /\ last_pass = NoPass
    /\ emitted = <<>>
    /\ prev_last = <<>>

\* Results: <<>> is Ok(()), an error is the chain of its messages, the
\* outermost context first and the error the contexts were attached to last.
Ok == <<>>
Pending == <<"pending">>

OrchInit ==
    /\ o_pc = "create_stream"
    /\ o_dec = "running"
    /\ o_queue = 0
    /\ o_made = 0
    /\ o_log = <<>>
    /\ o_stopped = FALSE
    /\ o_after_stop = FALSE
    /\ o_finish_res = Pending
    /\ o_decode_res = Pending
    /\ o_run_res = Pending
    /\ o_close_res = Pending
    /\ o_result = Pending

NoCall == [out |-> <<>>, started |-> FALSE, first |-> TRUE, closed |-> FALSE]

EncInit ==
    /\ e_kind = "none"
    /\ e_out = <<>>
    /\ e_started = FALSE
    /\ e_first = TRUE
    /\ e_closed = FALSE
    /\ e_ops = <<>>
    /\ e_before = NoCall
    /\ e_failed = FALSE

NoReturn == [kind |-> "none", len |-> 0]

\* Input samples are numbered from 0 in the order received.  in_buf always
\* holds the last in_buf samples received; pending_tail holds the samples
\* [tail_end - pending_tail, tail_end); out_hi is the number after the last
\* sample ever appended to out_buf, appended the number of samples appended,
\* and ordered says that every append so far started at or after out_hi.
NoHistory == [received |-> 0, tail_end |-> 0, out_hi |-> 0, appended |-> 0,
              ordered |-> TRUE]

\* before VadStreamReceiver::new; VadStream::new leaves every buffer empty
VadInit ==
    /\ v_emit = 0
    /\ v_in = 0
    /\ v_tail = 0
    /\ v_out = 0
    /\ v_cursor = 0
    /\ v_flushed = FALSE
    /\ v_inner = "open"
    /\ v_sent = 0
    /\ v_received = 0
    /\ v_delivered = 0
    /\ v_ret = NoReturn
    /\ v_shorts = 0
    /\ v_flush_calls = 0
    /\ v_speech = FALSE
    /\ v_vad_failed = FALSE
    /\ v_hist = NoHistory
    /\ v_last = [op |-> "none", ok |-> TRUE]

NoConfig == [rate |-> 0, target |-> 0]
NoPipeCall == [op |-> "none", frames |-> 0, plan |-> [from |-> 0, ret |-> "true"],
               chunks |-> <<>>, ret |-> "ok", stopped |-> FALSE, acc0 |-> 0,
               after_stop |-> FALSE, prev |-> [op |-> "none", acc0 |-> 0]]

\* AudioPipeline::new
PipeInit ==
    /\ p_cfg = NoConfig
    /\ p_resampler = FALSE
    /\ p_acc = 0
    /\ p_calls = 0
    /\ p_last = NoPipeCall

NoRecv == [kind |-> "none", len |-> 0]

\* before PipeReceiver::new
PipeRxInit ==
    /\ r_pc = "new"
    /\ r_min = 0
    /\ r_queue = <<>>
    /\ r_tx = "open"
    /\ r_sent = 0
    /\ r_in = 0
    /\ r_eof = FALSE
    /\ r_ret = NoRecv
    /\ r_calls = 0
    /\ r_fed = [received |-> 0, processed |-> 0]

NoPrefix == [status |-> "none", prefix_bytes |-> <<>>, prefix_chunks |-> <<>>,
             body_stream |-> <<>>]

\* before a request arrives
PrefixInit ==
    /\ b_body = <<>>
    /\ b_max = 0
    /\ b_res = NoPrefix
    /\ b_read = [done |-> FALSE, bytes |-> <<>>]

Init == IncInit /\ ChanInit /\ OrchInit /\ EncInit /\ VadInit /\ PipeInit
        /\ PipeRxInit /\ PrefixInit

\* SamplesSink::on_samples: append the chunk, then process_available(false).
\* The consume loop of scribble.rs calls it while the stream is live; an error
\* ends the transcription without finish().
OnSamplesOf(sizes) ==
    /\ phase = "live"
    /\ n_chunks < MaxChunks
    /\ \E c \in sizes :
        LET appended == [Self EXCEPT !.samples_len = @ + c]
        IN \E r \in Step(appended, FALSE) :
               /\ Apply(r)
               /\ last_chunk' = c
               /\ total_samples' = total_samples + c
               /\ phase' = IF r.progress = "Err" THEN "failed" ELSE "live"
    /\ n_chunks' = n_chunks + 1
    /\ UNCHANGED <<opts, finish_calls, finish_first_win, chan_vars, orch_vars, enc_vars, vad_vars, pipe_vars, io_vars>>

\* finish(): `while process_available(true)? == Advanced {}`, then clear the
\* buffer.  One step is one iteration of the loop (the backend answers each
\* iteration anew); the iteration that reports NoOp also clears the buffer.
FinishStep ==
    /\ phase \in {"live", "finishing"}
    /\ \E r \in Step(Self, TRUE) :
        LET cleared == [r EXCEPT !.self.samples_len = 0, !.self.head = 0]
        IN /\ Apply(IF r.progress = "NoOp" THEN cleared ELSE r)
           /\ phase' = CASE r.progress = "Err" -> "failed"
                         [] r.progress = "Advanced" -> "finishing"
                         [] OTHER -> "finished"
           /\ finish_calls' = finish_calls + (IF r.pass.ran THEN 1 ELSE 0)
    /\ finish_first_win' = IF phase = "live" THEN window_len ELSE finish_first_win
    /\ UNCHANGED <<opts, n_chunks, last_chunk, total_samples>>

Finish == FinishStep /\ UNCHANGED <<chan_vars, orch_vars, enc_vars, vad_vars, pipe_vars, io_vars>>

OnSamples == OnSamplesOf(ChunkSizes)

\* on_samples with a chunk of a few samples
OnSamplesSmall == OnSamplesOf(1..MaxSmallChunk)

IncNext == OnSamples \/ Finish

Next == IncNext

Spec == Init /\ [][Next]_vars

\* the same transcriber fed with chunks of a few samples only
SmallNext == OnSamplesSmall \/ Finish

SpecSmall == Init /\ [][SmallNext]_vars

-----------------------------------------------------------------------------
\* Properties of the incremental transcriber

\* start and end of the segments the state still holds, in the order written
RecentWritten ==
    prev_last \o [i \in 1..Len(emitted) |->
                    [start_seconds |-> emitted[i].start_seconds,
                     end_seconds |-> emitted[i].end_seconds]]

\* the last process_available call ran the backend and returned Ok
PassOk == last_pass.ran /\ last_pass.result # "Err"

\* C1: of two segments written one after the other (in one pass or in two),
\* the later starts at or after the end of the earlier on the global timeline.
C1_LaterStartsAfterEarlierEnd ==
    \A i \in 1..(Len(RecentWritten) - 1) :
        F32Leq(RecentWritten[i].end_seconds, RecentWritten[i + 1].start_seconds)

\* C2: the written segments are monotone non-decreasing in start_seconds and
\* each satisfies 0 <= start_seconds <= end_seconds.
C2_StartsMonotone ==
    /\ \A i \in 1..(Len(RecentWritten) - 1) :
          F32Leq(RecentWritten[i].start_seconds, RecentWritten[i + 1].start_seconds)
    /\ \A i \in 1..Len(RecentWritten) :
          /\ F32Leq(F32_ZERO, RecentWritten[i].start_seconds)
          /\ F32Leq(RecentWritten[i].start_seconds, RecentWritten[i].end_seconds)

\* C3: an on_samples call that sees a window of max_window_samples or more runs
\* a forced flush that advances head, and after every on_samples call the live
\* window is shorter than max_window_samples plus the chunk just appended.
C3_ForcedFlushBoundsWindow ==
    (phase = "live" /\ n_chunks > 0) =>
        /\ last_pass.win_len >= max_window_samples =>
              last_pass.force /\ last_pass.result = "Advanced"
        /\ window_len < max_window_samples + last_chunk

\* C6: with emit_single_segments false, a pass in which the backend returned
\* n >= 1 segments writes all n when forced, and otherwise the first n - 1
\* (none, leaving head where it was, when n = 1).
C6_LastSegmentTentative ==
    (PassOk /\ last_pass.n >= 1 /\ ~opts.emit_single_segments) =>
        LET count == IF last_pass.force THEN last_pass.n ELSE last_pass.n - 1
        IN /\ Len(emitted) = count
           /\ \A i \in 1..count : emitted[i].raw = last_pass.res[i]
           /\ count = 0 => /\ last_pass.result = "NoOp"
                           /\ head = last_pass.head0
                           /\ advanced_samples = last_pass.adv0

C6_Witness ==
    /\ PassOk /\ ~last_pass.force /\ ~opts.emit_single_segments
    /\ last_pass.n = 2 /\ Len(emitted) = 1

\* C7: with emit_single_segments true, a non-forced pass on a live stream in
\* which the backend returned n >= 1 segments writes all n of them.
C7_EmitSingleSegments ==
    (PassOk /\ ~last_pass.eos /\ ~last_pass.force /\ last_pass.n >= 1
       /\ opts.emit_single_segments) =>
        Len(emitted) = last_pass.n

\* C8: every segment a pass writes has its start, end and token times shifted
\* by advanced_samples / 16000 as it stood when the pass began; a segment
\* (0.0, 0.8) written at an offset of 1.2 s comes out as (1.2, 2.0).
C8_OffsetOfPassStart ==
    /\ \A i \in 1..Len(emitted) :
          LET raw == emitted[i].raw
              off == F32Div(last_pass.adv0, WHISPER_SAMPLE_RATE)
              secs(cs) == IF cs < 0 THEN F32_ZERO ELSE F32Div(cs, 100)
          IN /\ emitted[i].start_seconds = F32Add(F32Div(raw.t0, 100), off)
             /\ emitted[i].end_seconds = F32Add(F32Div(raw.t1, 100), off)
             /\ Len(emitted[i].tokens) = Len(raw.tokens)
             /\ \A k \in 1..Len(raw.tokens) :
                   /\ emitted[i].tokens[k].start_seconds
                        = F32Add(secs(raw.tokens[k].t0), off)
                   /\ emitted[i].tokens[k].end_seconds
                        = F32Add(secs(raw.tokens[k].t1), off)
    /\ LET world == apply_time_offset(
                        to_segment([t0 |-> 0, t1 |-> 80, tokens |-> <<>>]),
                        offset_seconds_of(19200))
       IN /\ world.start_seconds = F32Div(120, 100)
          /\ world.end_seconds = F32Div(200, 100)

C8_Witness ==
    /\ emitted # <<>>
    /\ last_pass.adv0 = 12800
    /\ emitted[1].raw.t0 = 0 /\ emitted[1].raw.t1 = 80
    /\ emitted[1].start_seconds = F32Div(80, 100)
    /\ emitted[1].end_seconds = F32Div(160, 100)

\* C9: on a live stream the backend is never run on a window shorter than
\* 16000 * Opts.incremental_min_window_seconds samples.
C9_MinWindowFromOpts ==
    (last_pass.ran /\ ~last_pass.eos) =>
        last_pass.win_len >= WHISPER_SAMPLE_RATE * opts.incremental_min_window_seconds

\* the stream ended with min_window_samples - 1 samples and no inference so far
EndedBelowMinWindow ==
    /\ phase \in {"finishing", "finished"}
    /\ finish_first_win = WHISPER_SAMPLE_RATE * opts.incremental_min_window_seconds - 1
    /\ finish_first_win = min_window_samples - 1
    /\ backend_calls = finish_calls

\* C10 as stated: in that case finish() runs the backend exactly once.
C10_FinishRunsBackendOnce ==
    (EndedBelowMinWindow /\ phase = "finished") => finish_calls = 1

\* C10 as amended: finish() runs the backend at least once, the first time on
\* the full buffer, writes every segment each run returns, and stops only when
\* the window is empty or the backend returns no segment.
C10_FinishFlushesUntilEmpty ==
    EndedBelowMinWindow =>
        /\ finish_calls >= 1
        /\ (finish_calls = 1 /\ last_pass.ran) => last_pass.win_len = total_samples
        /\ last_pass.ran =>
              /\ Len(emitted) = last_pass.n
              /\ \A i \in 1..last_pass.n : emitted[i].raw = last_pass.res[i]
        /\ phase = "finished" =>
              \/ last_pass.win_len = 0
              \/ last_pass.ran /\ last_pass.n = 0

C10_Witness ==
    EndedBelowMinWindow /\ phase = "finished" /\ finish_calls = 2

-----------------------------------------------------------------------------
\* The decoder thread and the consumer loop around mpsc::sync_channel(512).
\* Chunk k of the stream is represented by the number k.

\* a channel without a bound
send_ready_unbounded(q) == TRUE

\* SyncSender::send returns once the channel has room for the message
send_ready(q) == Len(q) < CHANNEL_BOUND

\* a receive that takes the newest buffered message
recv_newest(q) == [chunk |-> q[Len(q)], rest |-> SubSeq(q, 1, Len(q) - 1)]

\* Receiver::recv takes the oldest buffered message
recv(q) == [chunk |-> Head(q), rest |-> Tail(q)]

\* a sink that ignores the result of send
send_result_ignoring_error(receiver_dropped) == "true"

\* a sink that reports a dropped receiver as "stop" instead of failing
send_result_stop(receiver_dropped) ==
    IF receiver_dropped THEN "false" ELSE "true"

\* ChannelSamplesSink::on_samples: Ok(true) once the copy is enqueued, and the
\* error "decoder output channel disconnected" when send() fails
send_result(receiver_dropped) ==
    IF receiver_dropped THEN "err" ELSE "true"

\* the decoder has the next chunk ready and calls ChannelSamplesSink::on_samples
DecodeChunk ==
    /\ tx_state = "decoding"
    /\ tx_sent < MaxSends
    /\ tx_state' = "sending"
    /\ UNCHANGED <<queue, tx_sent, rx_state, rx_count, rx_last, sink_ret, inc_vars,
                   orch_vars, enc_vars, vad_vars, pipe_vars, io_vars>>

\* tx.send(buf) returns Ok
SendOk ==
    /\ tx_state = "sending"
    /\ rx_state # "dropped"
    /\ send_ready(queue)
    /\ queue' = Append(queue, tx_sent + 1)
    /\ tx_sent' = tx_sent + 1
    /\ tx_state' = "decoding"
    /\ sink_ret' = send_result(FALSE)
    /\ UNCHANGED <<rx_state, rx_count, rx_last, inc_vars, orch_vars, enc_vars, vad_vars, pipe_vars, io_vars>>

\* tx.send(buf) returns Err: the receiver is gone
SendDisconnected ==
    /\ tx_state = "sending"
    /\ rx_state = "dropped"
    /\ tx_state' = "failed"
    /\ sink_ret' = send_result(TRUE)
    /\ UNCHANGED <<queue, tx_sent, rx_state, rx_count, rx_last, inc_vars,
                   orch_vars, enc_vars, vad_vars, pipe_vars, io_vars>>

\* decode_to_stream_from_read returns (end of input or decode error); tx is dropped
DecodeEnd ==
    /\ tx_state = "decoding"
    /\ tx_state' = "done"
    /\ UNCHANGED <<queue, tx_sent, rx_state, rx_count, rx_last, sink_ret, inc_vars,
                   orch_vars, enc_vars, vad_vars, pipe_vars, io_vars>>

\* rx.recv() returns Ok(chunk)
RecvChunk ==
    /\ rx_state = "receiving"
    /\ queue # <<>>
    /\ rx_count < MaxRecvs
    /\ \E got \in {recv(queue)} :
          /\ rx_last' = got.chunk
          /\ queue' = got.rest
    /\ rx_count' = rx_count + 1
    /\ UNCHANGED <<tx_state, tx_sent, rx_state, sink_ret, inc_vars, orch_vars, enc_vars, vad_vars, pipe_vars, io_vars>>

\* rx.recv() returns Err: every sender is gone and nothing is buffered
RecvDisconnected ==
    /\ rx_state = "receiving"
    /\ queue = <<>>
    /\ tx_state \in {"done", "failed"}
    /\ rx_state' = "disconnected"
    /\ UNCHANGED <<queue, tx_state, tx_sent, rx_count, rx_last, sink_ret, inc_vars,
                   orch_vars, enc_vars, vad_vars, pipe_vars, io_vars>>

\* stream.on_samples(&chunk)? returns early and rx is dropped with what it buffers
ConsumerAbort ==
    /\ rx_state = "receiving"
    /\ rx_count > 0
    /\ rx_state' = "dropped"
    /\ queue' = <<>>
    /\ UNCHANGED <<tx_state, tx_sent, rx_count, rx_last, sink_ret, inc_vars,
                   orch_vars, enc_vars, vad_vars, pipe_vars, io_vars>>

ChanNext ==
    \/ DecodeChunk
    \/ SendOk
    \/ SendDisconnected
    \/ DecodeEnd
    \/ RecvChunk
    \/ RecvDisconnected
    \/ ConsumerAbort

SpecChannel == Init /\ [][ChanNext]_vars

-----------------------------------------------------------------------------
\* Properties of the channel

\* C4: the consumer receives the chunks in the order the producer sent them,
\* each at most once, and sees the disconnect only after it has received every
\* chunk sent before the producer ended.
C4_ChunkDeliveryFifo ==
    /\ rx_count > 0 => rx_last = rx_count
    /\ rx_state # "dropped" =>
          queue = [i \in 1..(tx_sent - rx_count) |-> rx_count + i]
    /\ rx_state = "disconnected" =>
          tx_state \in {"done", "failed"} /\ rx_count = tx_sent

C4_Witness ==
    /\ rx_state = "disconnected"
    /\ rx_count = MaxRecvs
    /\ rx_last = MaxRecvs

\* C5: at most 512 chunks are queued at any moment, a send completes only when
\* the queue has room, and while the queue is full the producer stays in send
\* until the consumer receives a chunk (or is gone).
C5_BoundedQueueBlocksSend ==
    /\ [](Len(queue) <= CHANNEL_BOUND)
    /\ [][/\ tx_sent' # tx_sent => Len(queue) < CHANNEL_BOUND
          /\ (tx_state = "sending" /\ Len(queue) = CHANNEL_BOUND) =>
                \/ tx_state' = "sending"
                \/ tx_state' = "failed" /\ rx_state = "dropped"]_vars

C5_Witness ==
    /\ Len(queue) = CHANNEL_BOUND
    /\ tx_state = "sending"
    /\ rx_count > 0

\* C16 as stated: the sink returns false exactly when the consumer end has been
\* dropped, and true for every chunk enqueued while the consumer is alive.
C16_SinkReturnsFalseIffDropped ==
    /\ tx_state = "failed" => sink_ret = "false"
    /\ sink_ret = "false" => rx_state = "dropped"
    /\ (tx_sent > 0 /\ tx_state # "failed") => sink_ret = "true"

\* C16 as amended: the sink returns true for every chunk it enqueues, which it
\* does only while the consumer is alive, it fails with the disconnect error
\* exactly when the consumer end has been dropped, and it never returns false.
C16_SinkFailsIffDropped ==
    /\ [](/\ sink_ret # "false"
          /\ sink_ret = "err" <=> tx_state = "failed"
          /\ sink_ret = "err" => rx_state = "dropped"
          /\ sink_ret = "true" => tx_sent > 0)
    /\ [][/\ tx_sent' # tx_sent =>
                /\ rx_state # "dropped"
                /\ sink_ret' = "true"
                /\ queue' = Append(queue, tx_sent')
          /\ (tx_state = "sending" /\ rx_state = "dropped") =>
                \/ tx_state' = "sending"
                \/ sink_ret' = "err"]_vars

C16_Witness ==
    /\ tx_state = "failed"
    /\ sink_ret = "err"
    /\ tx_sent > 0

-----------------------------------------------------------------------------
\* Scribble::transcribe: the consumer thread drives the backend stream and the
\* encoder while the decoder thread feeds the channel.

\* err.context(ctx): ctx becomes the outermost message of err
context(err, ctx) == ctx \o err

\* the error the contexts of a failure were attached to
Primary(err) == err[Len(err)]

\* a merge that reports the decoder failure with the finish failure as context
merge_finish_and_decode_decoder_first(finish_res, decode_res) ==
    finish_res \o decode_res

\* match (finish_res, decode_res) of transcribe_with_encoder
merge_finish_and_decode(finish_res, decode_res) ==
    IF finish_res = Ok /\ decode_res = Ok THEN Ok
    ELSE IF finish_res = Ok THEN decode_res
    ELSE IF decode_res = Ok THEN finish_res
    ELSE context(finish_res, decode_res)

\* a merge that forgets the close failure once the run has failed
merge_run_and_close_run_only(run_res, close_res) ==
    IF run_res = Ok THEN close_res ELSE run_res

merge_run_and_close(run_res, close_res) ==
    IF run_res = Ok /\ close_res = Ok THEN Ok
    ELSE IF run_res = Ok THEN close_res
    ELSE IF close_res = Ok THEN run_res
    ELSE context(run_res, close_res)

\* decode_handle.join(): the thread's own result, or the panic error
join_result(dec) ==
    CASE dec = "ok" -> Ok
      [] dec = "err" -> <<"decode">>
      [] dec = "disconnected" -> <<"decoder output channel disconnected">>
      [] dec = "panicked" -> <<"decoder thread panicked">>

\* rx lives until transcribe_with_encoder returns
ReceiverAlive == o_pc \in {"create_stream", "recv", "finish", "join"}

\* the decoder thread's sink enqueues a chunk
DecoderSend ==
    /\ o_dec = "running"
    /\ ReceiverAlive
    /\ o_made < MaxOrchChunks
    /\ o_queue < CHANNEL_BOUND
    /\ o_queue' = o_queue + 1
    /\ o_made' = o_made + 1
    /\ UNCHANGED <<o_pc, o_dec, o_log, o_stopped, o_after_stop, o_finish_res,
                   o_decode_res, o_run_res, o_close_res, o_result,
                   inc_vars, chan_vars, enc_vars, vad_vars, pipe_vars, io_vars>>

\* the sink's send fails because rx is gone; the thread returns that error
DecoderSendDisconnected ==
    /\ o_dec = "running"
    /\ ~ReceiverAlive
    /\ o_dec' = "disconnected"
    /\ UNCHANGED <<o_pc, o_queue, o_made, o_log, o_stopped, o_after_stop,
                   o_finish_res, o_decode_res, o_run_res, o_close_res, o_result,
                   inc_vars, chan_vars, enc_vars, vad_vars, pipe_vars, io_vars>>

\* decode_to_stream_from_read returns Ok or Err, or the thread panics
DecoderEnd ==
    /\ o_dec = "running"
    /\ o_dec' \in {"ok", "err", "panicked"}
    /\ UNCHANGED <<o_pc, o_queue, o_made, o_log, o_stopped, o_after_stop,
                   o_finish_res, o_decode_res, o_run_res, o_close_res, o_result,
                   inc_vars, chan_vars, enc_vars, vad_vars, pipe_vars, io_vars>>

\* backend.create_stream(opts, encoder)?
CreateStream ==
    /\ o_pc = "create_stream"
    /\ \E ok \in BOOLEAN :
          IF ok
          THEN /\ o_pc' = "recv"
               /\ o_log' = Append(o_log, "create_stream")
               /\ UNCHANGED o_run_res
          ELSE /\ o_pc' = "close"
               /\ o_run_res' = <<"create_stream">>
               /\ UNCHANGED o_log
    /\ UNCHANGED <<o_dec, o_queue, o_made, o_stopped, o_after_stop, o_finish_res,
                   o_decode_res, o_close_res, o_result,
                   inc_vars, chan_vars, enc_vars, vad_vars, pipe_vars, io_vars>>

\* while let Ok(chunk) = rx.recv() { let _ = stream.on_samples(&chunk)?; }
DeliverChunk ==
    /\ o_pc = "recv"
    /\ o_queue > 0
    /\ o_queue' = o_queue - 1
    /\ o_log' = Append(o_log, "on_samples")
    /\ o_after_stop' = (o_after_stop \/ o_stopped)
    /\ \E ret \in {"true", "false", "err"} :
          /\ o_stopped' = (o_stopped \/ ret = "false")
          /\ IF ret = "err"
             THEN o_pc' = "close" /\ o_run_res' = <<"on_samples">>
             ELSE UNCHANGED <<o_pc, o_run_res>>
    /\ UNCHANGED <<o_dec, o_made, o_finish_res, o_decode_res, o_close_res,
                   o_result, inc_vars, chan_vars, enc_vars, vad_vars, pipe_vars, io_vars>>

\* rx.recv() returns Err: the decoder thread is gone and the channel is empty
RecvLoopEnd ==
    /\ o_pc = "recv"
    /\ o_queue = 0
    /\ o_dec # "running"
    /\ o_pc' = "finish"
    /\ UNCHANGED <<o_dec, o_queue, o_made, o_log, o_stopped, o_after_stop,
                   o_finish_res, o_decode_res, o_run_res, o_close_res, o_result,
                   inc_vars, chan_vars, enc_vars, vad_vars, pipe_vars, io_vars>>

\* let finish_res = stream.finish();
StreamFinish ==
    /\ o_pc = "finish"
    /\ o_finish_res' \in {Ok, <<"finish">>}
    /\ o_log' = Append(o_log, "finish")
    /\ o_pc' = "join"
    /\ UNCHANGED <<o_dec, o_queue, o_made, o_stopped, o_after_stop,
                   o_decode_res, o_run_res, o_close_res, o_result,
                   inc_vars, chan_vars, enc_vars, vad_vars, pipe_vars, io_vars>>

\* decode_handle.join() and the match on (finish_res, decode_res)
JoinAndMerge ==
    /\ o_pc = "join"
    /\ o_dec # "running"
    /\ o_decode_res' = join_result(o_dec)
    /\ o_run_res' = merge_finish_and_decode(o_finish_res, join_result(o_dec))
    /\ o_pc' = "close"
    /\ UNCHANGED <<o_dec, o_queue, o_made, o_log, o_stopped, o_after_stop,
                   o_finish_res, o_close_res, o_result,
                   inc_vars, chan_vars, enc_vars, vad_vars, pipe_vars, io_vars>>

\* merge_run_and_close(run_res, encoder.close())
EncoderClose ==
    /\ o_pc = "close"
    /\ \E res \in {Ok, <<"close">>} :
          /\ o_close_res' = res
          /\ o_result' = merge_run_and_close(o_run_res, res)
    /\ o_log' = Append(o_log, "close")
    /\ o_pc' = "done"
    /\ UNCHANGED <<o_dec, o_queue, o_made, o_stopped, o_after_stop,
                   o_finish_res, o_decode_res, o_run_res,
                   inc_vars, chan_vars, enc_vars, vad_vars, pipe_vars, io_vars>>

OrchNext ==
    \/ DecoderSend
    \/ DecoderSendDisconnected
    \/ DecoderEnd
    \/ CreateStream
    \/ DeliverChunk
    \/ RecvLoopEnd
    \/ StreamFinish
    \/ JoinAndMerge
    \/ EncoderClose

SpecOrch == Init /\ [][OrchNext]_vars

-----------------------------------------------------------------------------
\* Properties of transcribe

\* positions in the call log at which `call` was made
CallsOf(call) == {i \in DOMAIN o_log : o_log[i] = call}

StreamCreated == CallsOf("create_stream") # {}

\* C11: when the stream was created, stream.finish() is called exactly once,
\* after the last on_samples call and before encoder.close(), on every path.
C11_FinishCalledOnce ==
    (o_pc = "done" /\ StreamCreated) =>
        /\ Cardinality(CallsOf("finish")) = 1
        /\ \A f \in CallsOf("finish") :
              /\ \A i \in CallsOf("on_samples") : i < f
              /\ \A c \in CallsOf("close") : f < c

\* C12: the run result merges stream.finish() with the decoder thread's result:
\* Ok iff both succeeded, the one error if exactly one failed, and if both
\* failed the finish failure with the decoder error attached as context.
C12_RunMergesFinishAndDecode ==
    (o_finish_res # Pending /\ o_decode_res # Pending) =>
        /\ o_run_res # Pending
        /\ o_run_res = Ok <=> (o_finish_res = Ok /\ o_decode_res = Ok)
        /\ (o_finish_res # Ok /\ o_decode_res = Ok) => o_run_res = o_finish_res
        /\ (o_finish_res = Ok /\ o_decode_res # Ok) => o_run_res = o_decode_res
        /\ (o_finish_res # Ok /\ o_decode_res # Ok) =>
              /\ Primary(o_run_res) = Primary(o_finish_res)
              /\ SubSeq(o_run_res, 1, Len(o_decode_res)) = o_decode_res
              /\ Len(o_run_res) = Len(o_decode_res) + Len(o_finish_res)

C12_Witness ==
    /\ o_finish_res = <<"finish">>
    /\ o_decode_res = <<"decode">>
    /\ o_run_res = <<"decode", "finish">>

C14_PanicReportedTopLevel ==
    (o_pc = "done" /\ o_dec = "panicked" /\ StreamCreated) =>
        /\ CallsOf("finish") # {}
        /\ CallsOf("close") # {}
        /\ o_result # Ok
        /\ Primary(o_result) = "decoder thread panicked"

\* C15: once stream.on_samples has returned false, no further chunk is
\* delivered to the stream.
C15_NoChunkAfterStop == ~o_after_stop

-----------------------------------------------------------------------------
\* JsonArrayEncoder and VttEncoder.  The output is the sequence of tokens the
\* writer has accepted; a write_all of more than one byte that fails may have
\* put a truncated piece ("part") into the output before failing.

Tok(k, id) == [k |-> k, id |-> id]

\* where the writer fails during a call, if it does
FailPoints == {"none", "open", "open_partial", "comma", "element",
               "element_partial", "timing", "text", "bracket", "flush"}

\* Segment::text either is plain or holds the characters "--> "
TextKinds == {"plain", "arrow"}

Encoder == [out |-> e_out, started |-> e_started, first |-> e_first,
            closed |-> e_closed]

\* self.w.write_all(bytes)?
write_all(enc, tok, fails, partial) ==
    IF fails
    THEN [enc |-> IF partial
                  THEN [enc EXCEPT !.out = Append(@, Tok("part", tok.id))]
                  ELSE enc,
          ok |-> FALSE]
    ELSE [enc |-> [enc EXCEPT !.out = Append(@, tok)], ok |-> TRUE]

\* start_if_needed of either encoder; partial only for the multi-byte header
start_if_needed(enc, tok, fail) ==
    IF ~enc.started
    THEN LET w == write_all(enc, tok,
                            fail = "open" \/ (fail = "open_partial" /\ tok.k = "header"),
                            fail = "open_partial")
         IN IF w.ok THEN [enc |-> [w.enc EXCEPT !.started = TRUE], ok |-> TRUE]
            ELSE w
    ELSE [enc |-> enc, ok |-> TRUE]

\* an encoder that accepts segments after close
rejects_write_never(closed) == FALSE

\* if self.closed { return Err(..) }
rejects_write(closed) == closed

Failed(enc) == [enc |-> enc, ret |-> "err", wfail |-> TRUE]
Done(enc) == [enc |-> enc, ret |-> "ok", wfail |-> FALSE]

\* JsonArrayEncoder::write_segment
json_write_segment(enc, seg, fail) ==
    IF rejects_write(enc.closed) THEN [enc |-> enc, ret |-> "err", wfail |-> FALSE]
    ELSE LET s1 == start_if_needed(enc, Tok("[", 0), fail)
         IN IF ~s1.ok THEN Failed(s1.enc)
            ELSE LET s2 == IF ~s1.enc.first
                           THEN write_all(s1.enc, Tok(",", 0), fail = "comma", FALSE)
                           ELSE s1
                 IN IF ~s2.ok THEN Failed(s2.enc)
                    ELSE LET s3 == write_all([s2.enc EXCEPT !.first = FALSE],
                                             Tok("element", seg.id),
                                             fail \in {"element", "element_partial"},
                                             fail = "element_partial")
                         IN IF ~s3.ok \/ fail = "flush" THEN Failed(s3.enc)
                            ELSE Done(s3.enc)

\* a close that writes the closing bracket only
json_close_bracket_only(enc, fail) ==
    IF enc.closed THEN Done(enc)
    ELSE LET s2 == write_all(enc, Tok("]", 0), fail = "bracket", FALSE)
         IN IF ~s2.ok \/ fail = "flush" THEN Failed(s2.enc)
            ELSE Done([s2.enc EXCEPT !.closed = TRUE])

\* JsonArrayEncoder::close
json_close(enc, fail) ==
    IF enc.closed THEN Done(enc)
    ELSE LET s1 == start_if_needed(enc, Tok("[", 0), fail)
         IN IF ~s1.ok THEN Failed(s1.enc)
            ELSE LET s2 == write_all(s1.enc, Tok("]", 0), fail = "bracket", FALSE)
                 IN IF ~s2.ok \/ fail = "flush" THEN Failed(s2.enc)
                    ELSE Done([s2.enc EXCEPT !.closed = TRUE])

\* VttEncoder::write_segment: header, timing line, text line, blank line, flush
vtt_write_segment(enc, seg, fail) ==
    IF rejects_write(enc.closed) THEN [enc |-> enc, ret |-> "err", wfail |-> FALSE]
    ELSE LET s1 == start_if_needed(enc, Tok("header", 0), fail)
         IN IF ~s1.ok THEN Failed(s1.enc)
            ELSE LET s2 == write_all(s1.enc, Tok("timing", seg.id),
                                     fail = "timing", FALSE)
                 IN IF ~s2.ok THEN Failed(s2.enc)
                    ELSE LET s3 == write_all(s2.enc, Tok(seg.text, seg.id),
                                             fail = "text", FALSE)
                         IN IF ~s3.ok THEN Failed(s3.enc)
                            ELSE LET s4 == write_all(s3.enc, Tok("blank", 0),
                                                     FALSE, FALSE)
                                 IN IF fail = "flush" THEN Failed(s4.enc)
                                    ELSE Done(s4.enc)

\* VttEncoder::close only flushes
vtt_close(enc, fail) ==
    IF enc.closed THEN Done(enc)
    ELSE IF fail = "flush" THEN Failed(enc)
    ELSE Done([enc EXCEPT !.closed = TRUE])

write_segment(kind, enc, seg, fail) ==
    IF kind = "json" THEN json_write_segment(enc, seg, fail)
    ELSE vtt_write_segment(enc, seg, fail)

close(kind, enc, fail) ==
    IF kind = "json" THEN json_close(enc, fail) ELSE vtt_close(enc, fail)

\* the state after a call that returned r
EncSet(op, id, r) ==
    /\ e_out' = r.enc.out
    /\ e_started' = r.enc.started
    /\ e_first' = r.enc.first
    /\ e_closed' = r.enc.closed
    /\ e_ops' = Append(e_ops, [op |-> op, ret |-> r.ret, id |-> id])
    /\ e_before' = Encoder
    /\ e_failed' = (e_failed \/ r.wfail)
    /\ UNCHANGED e_kind

EncApply(op, id, r) == EncSet(op, id, r) /\ UNCHANGED <<inc_vars, chan_vars, orch_vars, vad_vars, pipe_vars, io_vars>>

WriteCalls == {i \in DOMAIN e_ops : e_ops[i].op = "write"}

\* JsonArrayEncoder::new / VttEncoder::new, as transcribe selects them
EncNew ==
    /\ e_kind = "none"
    /\ e_kind' \in {"json", "vtt"}
    /\ UNCHANGED <<e_out, e_started, e_first, e_closed, e_ops, e_before, e_failed,
                   inc_vars, chan_vars, orch_vars, vad_vars, pipe_vars, io_vars>>

EncWriteSegment ==
    /\ e_kind # "none"
    /\ Len(e_ops) < MaxEncOps
    /\ \E text \in TextKinds, fail \in FailPoints :
          LET id == Cardinality(WriteCalls) + 1
          IN EncApply("write", id,
                      write_segment(e_kind, Encoder, [id |-> id, text |-> text], fail))

EncClose ==
    /\ e_kind # "none"
    /\ Len(e_ops) < MaxEncOps
    /\ \E fail \in FailPoints : EncApply("close", 0, close(e_kind, Encoder, fail))

EncNext == EncNew \/ EncWriteSegment \/ EncClose

SpecEncoder == Init /\ [][EncNext]_vars

-----------------------------------------------------------------------------
\* Properties of the encoders

LastOp == e_ops[Len(e_ops)]

\* write_segment calls that returned Ok
OkWrites == {i \in WriteCalls : e_ops[i].ret = "ok"}

\* a close() has succeeded before the last call
ClosedBefore ==
    \E i \in 1..(Len(e_ops) - 1) : e_ops[i].op = "close" /\ e_ops[i].ret = "ok"

\* the tokens are "[", n elements separated by single commas, "]"
IsJsonArray(out, n) ==
    /\ Len(out) = IF n = 0 THEN 2 ELSE 2 * n + 1
    /\ out[1].k = "["
    /\ out[Len(out)].k = "]"
    /\ \A i \in 1..n : out[2 * i].k = "element"
    /\ \A i \in 1..(n - 1) : out[2 * i + 1].k = ","

\* positions of the output that hold the characters "--> "
Arrows(out) == {i \in DOMAIN out : out[i].k \in {"timing", "arrow"}}

\* C17: for a JSON encoder, after any sequence of write_segment calls, each of
\* which may succeed or fail, followed by a successful close, the output is one
\* JSON array whose length is the number of write_segment calls that returned Ok.
C17_JsonArrayOfOkWrites ==
    (/\ e_kind = "json"
     /\ e_ops # <<>>
     /\ LastOp.op = "close" /\ LastOp.ret = "ok"
     /\ \A i \in 1..(Len(e_ops) - 1) : e_ops[i].op = "write") =>
        IsJsonArray(e_out, Cardinality(OkWrites))

\* C18: for both encoders a second close() right after a close() writes no
\* bytes and leaves the output unchanged, from every reachable state.
C18_SecondCloseWritesNothing ==
    (/\ Len(e_ops) >= 2
     /\ LastOp.op = "close"
     /\ e_ops[Len(e_ops) - 1].op = "close") =>
        e_out = e_before.out

\* C19: for both encoders every write_segment call made after close() has
\* succeeded returns an error, writes no bytes and leaves the encoder's state
\* as it was.
C19_WriteAfterCloseRejected ==
    (e_ops # <<>> /\ LastOp.op = "write" /\ ClosedBefore) =>
        /\ LastOp.ret = "err"
        /\ e_out = e_before.out
        /\ Encoder = e_before

C19_Witness ==
    /\ e_kind = "vtt"
    /\ e_ops # <<>> /\ LastOp.op = "write" /\ LastOp.ret = "err"
    /\ ClosedBefore
    /\ e_out # <<>>

\* C20: for a VTT encoder whose writer does not fail, the output is empty or
\* begins with the one WEBVTT header, followed by exactly one "--> " per
\* emitted segment, the cues in write order.
C20_VttOneCuePerSegment ==
    (e_kind = "vtt" /\ ~e_failed) =>
        /\ OkWrites = {} => e_out = <<>>
        /\ e_out # <<>> =>
              /\ e_out[1].k = "header"
              /\ \A i \in 2..Len(e_out) : e_out[i].k # "header"
              /\ Cardinality(Arrows(e_out)) = Cardinality(OkWrites)
              /\ \A i, j \in DOMAIN e_out :
                    (i < j /\ e_out[i].k = "timing" /\ e_out[j].k = "timing") =>
                        e_out[i].id < e_out[j].id

-----------------------------------------------------------------------------
\* More properties of the incremental transcriber

\* C28: before finish, head <= samples.len, advanced_samples never decreases
\* and advanced_samples + (samples.len - head) is the number of samples
\* ingested; compaction changes neither the live window nor advanced_samples.
C28_WindowConservation ==
    /\ [](phase = "live" =>
            /\ head <= samples_len
            /\ advanced_samples + (samples_len - head) = total_samples
            /\ window_len_of(maybe_compact(samples_len, head).samples_len,
                             maybe_compact(samples_len, head).head) = window_len
            /\ last_pass.result = "Advanced" =>
                  /\ advanced_samples - last_pass.adv0 \in 1..last_pass.win_len
                  /\ window_len = last_pass.win_len
                                    - (advanced_samples - last_pass.adv0))
    /\ [][phase' = "live" => advanced_samples' >= advanced_samples]_vars

C28_Witness ==
    /\ phase = "live"
    /\ last_pass.result = "Advanced"
    /\ last_pass.head0 > 0
    /\ head = 0
    /\ advanced_samples > last_pass.adv0

\* C29: each finish() pass that reports progress advances head by an amount
\* in [1, win_len], so the live window strictly shrinks; finish makes at most
\* win_len + 1 backend passes, and once it reports no progress the buffer is
\* empty and head = 0.
C29_FinishTerminates ==
    /\ [](/\ finish_calls <= finish_first_win + 1
          /\ phase = "finished" => samples_len = 0 /\ head = 0
          /\ (phase = "finishing" /\ finish_calls = backend_calls) =>
                window_len <= finish_first_win - finish_calls)
    /\ [][phase' = "finishing" =>
            /\ last_pass'.win_len = window_len
            /\ window_len' < window_len
            /\ advanced_samples' - advanced_samples = window_len - window_len'
            /\ advanced_samples' - advanced_samples \in 1..window_len]_vars

C29_Witness ==
    /\ phase = "finished"
    /\ finish_first_win = MaxSmallChunk
    /\ finish_calls = 3
    /\ advanced_samples = 3

\* the step of the n-th consecutive pass that finalized nothing
BackoffStep(n) ==
    CASE n = 1 -> min_window_samples
      [] n = 2 -> 2 * min_window_samples
      [] n = 3 -> 4 * min_window_samples
      [] n = 4 -> 8 * min_window_samples
      [] OTHER -> 16 * min_window_samples

-----------------------------------------------------------------------------
\* Scribble::transcribe of an input that yields no audio chunk, with the
\* built-in stream (WhisperStream over BufferedSegmentTranscriber) writing to
\* the encoder transcribe selected.

\* the segments a stream call emitted, written to the encoder in order
RECURSIVE WriteSegments(_, _, _)
WriteSegments(kind, st, segs) ==
    IF segs = <<>> THEN st
    ELSE LET id == Len(st.ops) + 1
             r  == write_segment(kind, st.enc, [id |-> id, text |-> "plain"], "none")
         IN WriteSegments(kind,
                          [enc |-> r.enc,
                           ops |-> Append(st.ops, [op |-> "write", ret |-> r.ret,
                                                   id |-> id])],
                          Tail(segs))

\* match opts.output_type { Json => JsonArrayEncoder::new, Vtt => VttEncoder::new }
EmptySelectEncoder == o_pc = "create_stream" /\ EncNew

\* the decoder thread finds no audio: it returns Ok or Err, or panics
EmptyDecoderEnd == e_kind # "none" /\ DecoderEnd

EmptyCreateStream == e_kind # "none" /\ CreateStream

\* the first rx.recv() reports the disconnect
EmptyRecvLoopEnd == RecvLoopEnd

\* stream.finish() is BufferedSegmentTranscriber::finish
EmptyStreamFinish ==
    /\ o_pc = "finish"
    /\ FinishStep
    /\ LET st == WriteSegments(e_kind, [enc |-> Encoder, ops |-> e_ops], emitted')
       IN /\ e_out' = st.enc.out
          /\ e_started' = st.enc.started
          /\ e_first' = st.enc.first
          /\ e_closed' = st.enc.closed
          /\ e_ops' = st.ops
    /\ e_before' = Encoder
    /\ o_log' = IF phase = "live" THEN Append(o_log, "finish") ELSE o_log
    /\ o_pc' = IF phase' = "finishing" THEN "finish" ELSE "join"
    /\ o_finish_res' = CASE phase' = "failed" -> <<"finish">>
                         [] phase' = "finished" -> Ok
                         [] OTHER -> o_finish_res
    /\ UNCHANGED <<o_dec, o_queue, o_made, o_stopped, o_after_stop, o_decode_res,
                   o_run_res, o_close_res, o_result, e_kind, e_failed, chan_vars, vad_vars, pipe_vars, io_vars>>

EmptyJoinAndMerge == JoinAndMerge

\* merge_run_and_close(run_res, encoder.close()) over a writer that may fail
EmptyEncoderClose ==
    /\ o_pc = "close"
    /\ \E fail \in FailPoints :
          LET r == close(e_kind, Encoder, fail)
              res == IF r.ret = "ok" THEN Ok ELSE <<"close">>
          IN /\ EncSet("close", 0, r)
             /\ o_close_res' = res
             /\ o_result' = merge_run_and_close(o_run_res, res)
    /\ o_log' = Append(o_log, "close")
    /\ o_pc' = "done"
    /\ UNCHANGED <<o_dec, o_queue, o_made, o_stopped, o_after_stop,
                   o_finish_res, o_decode_res, o_run_res, inc_vars, chan_vars, vad_vars, pipe_vars, io_vars>>

EmptyNext ==
    \/ EmptySelectEncoder
    \/ EmptyDecoderEnd
    \/ EmptyCreateStream
    \/ EmptyRecvLoopEnd
    \/ EmptyStreamFinish
    \/ EmptyJoinAndMerge
    \/ EmptyEncoderClose

SpecEmpty == Init /\ [][EmptyNext]_vars

\* C21: for an input that yields no audio chunk, transcribe never runs the
\* backend and writes no segment, whatever the decoder thread reports and
\* whether or not the stream could be created; encoder.close() is the only
\* call made on the encoder, and over a writer that accepts every write the
\* output is exactly "[" "]" for JSON and nothing at all for VTT.
C21_EmptyInputEmptyDocument ==
    /\ backend_calls = 0
    /\ emitted = <<>>
    /\ \A i \in DOMAIN e_ops : e_ops[i].op = "close"
    /\ o_pc # "done" => e_out = <<>> /\ e_ops = <<>>
    /\ o_pc = "done" =>
          /\ Len(e_ops) = 1
          /\ ~e_failed =>
                /\ o_close_res = Ok
                /\ e_kind = "json" => e_out = <<Tok("[", 0), Tok("]", 0)>>
                /\ e_kind = "vtt" => e_out = <<>>

C21_Witness ==
    /\ o_pc = "done"
    /\ o_dec = "err"
    /\ ~e_failed
    /\ e_kind = "json"
    /\ e_out = <<Tok("[", 0), Tok("]", 0)>>
    /\ Cardinality(CallsOf("finish")) = 1
    /\ o_result = <<"decode">>

-----------------------------------------------------------------------------
\* VadStream and VadStreamReceiver (src/src/vad/stream.rs).  A buffer is its
\* length; a VAD pass over a window reports speech, reports none, or fails.

\* chunk lengths the input channel carries, and the emit_frames of the receiver
VadChunkSizes == {1024, 31000, 64000}
EmitFramesChoices == {1024, 20000}
Verdicts == {"speech", "silence", "fail"}

\* ((ms as f32 / 1000.0) * sample_rate).round() as usize
ms_to_samples(ms, sample_rate) == (ms * sample_rate + 500) \div 1000

window_frames == SAMPLE_RATE_HZ * 2

holdback_frames ==
    ms_to_samples(Max(Max(DEFAULT_VAD_POLICY.pre_pad_ms, DEFAULT_VAD_POLICY.post_pad_ms),
                      DEFAULT_VAD_POLICY.gap_merge_ms),
                  SAMPLE_RATE_HZ)

VadSelf == [in_buf |-> v_in, pending_tail |-> v_tail, out_buf |-> v_out,
            out_cursor |-> v_cursor, hist |-> v_hist]

\* the history after `window` = pending_tail ++ fresh samples starting at
\* sample `start` was formed and its first `kept` samples appended to out_buf
Appended(st, start, window, kept) ==
    LET tail  == st.pending_tail
        first == IF tail > 0 THEN st.hist.tail_end - tail ELSE start
        last  == IF kept <= tail THEN first + kept ELSE start + (kept - tail)
    IN [st.hist EXCEPT
          !.ordered = @ /\ (kept > 0 => first >= st.hist.out_hi)
                        /\ (tail > 0 => st.hist.tail_end <= start),
          !.out_hi = IF kept > 0 THEN last ELSE @,
          !.appended = @ + kept,
          !.tail_end = start + (window - tail)]

\* a window without speech is kept, attenuated, like any other
process_window_keep_all(st, has_speech) ==
    LET window == st.pending_tail + window_frames
        start  == st.hist.received - st.in_buf
        taken  == [st EXCEPT !.in_buf = @ - window_frames]
    IN IF holdback_frames > 0 /\ window > holdback_frames
       THEN [taken EXCEPT !.out_buf = @ + (window - holdback_frames),
                          !.pending_tail = holdback_frames,
                          !.hist = Appended(st, start, window,
                                            window - holdback_frames)]
       ELSE [taken EXCEPT !.out_buf = @ + window, !.pending_tail = 0,
                          !.hist = Appended(st, start, window, window)]

\* a split at holdback_frames from the start instead of from the end
process_window_split_at_holdback(st, has_speech) ==
    LET window == st.pending_tail + window_frames
        start  == st.hist.received - st.in_buf
        taken  == [st EXCEPT !.in_buf = @ - window_frames]
    IN IF ~has_speech
       THEN [taken EXCEPT !.pending_tail = 0,
                          !.hist = Appended(st, start, window, 0)]
       ELSE [taken EXCEPT !.out_buf = @ + holdback_frames,
                          !.pending_tail = window - holdback_frames,
                          !.hist = Appended(st, start, window, holdback_frames)]

\* a split that appends the whole window and still holds its tail back
process_window_tail_twice(st, has_speech) ==
    LET window == st.pending_tail + window_frames
        start  == st.hist.received - st.in_buf
        taken  == [st EXCEPT !.in_buf = @ - window_frames]
    IN IF ~has_speech
       THEN [taken EXCEPT !.pending_tail = 0,
                          !.hist = Appended(st, start, window, 0)]
       ELSE [taken EXCEPT !.out_buf = @ + window,
                          !.pending_tail = holdback_frames,
                          !.hist = Appended(st, start, window, window)]

\* one iteration of the loop of process_ready_windows, after vad.apply
\* returned Ok(has_speech) for pending_tail ++ the next window_frames samples
process_window(st, has_speech) ==
    LET window == st.pending_tail + window_frames
        start  == st.hist.received - st.in_buf
        taken  == [st EXCEPT !.in_buf = @ - window_frames]
    IN IF ~has_speech
       THEN [taken EXCEPT !.pending_tail = 0,
                          !.hist = Appended(st, start, window, 0)]
       ELSE IF holdback_frames > 0 /\ window > holdback_frames
       THEN [taken EXCEPT !.out_buf = @ + (window - holdback_frames),
                          !.pending_tail = holdback_frames,
                          !.hist = Appended(st, start, window,
                                            window - holdback_frames)]
       ELSE [taken EXCEPT !.out_buf = @ + window, !.pending_tail = 0,
                          !.hist = Appended(st, start, window, window)]

\* process_ready_windows; verdicts[i] is what the i-th VAD pass of the call
\* reports.  A failing pass returns the error with its window already drained
\* from in_buf.
RECURSIVE process_ready_windows(_, _)
process_ready_windows(st, verdicts) ==
    IF st.in_buf < window_frames THEN [vad |-> st, ok |-> TRUE, speech |-> FALSE]
    ELSE IF Head(verdicts) = "fail"
    THEN [vad |-> [st EXCEPT !.in_buf = @ - window_frames], ok |-> FALSE,
          speech |-> FALSE]
    ELSE LET r == process_ready_windows(process_window(st, Head(verdicts) = "speech"),
                                        Tail(verdicts))
         IN [r EXCEPT !.speech = @ \/ Head(verdicts) = "speech"]

\* VadStream::push
push(st, chunk, verdicts) ==
    process_ready_windows([st EXCEPT !.in_buf = @ + chunk,
                                     !.hist.received = @ + chunk], verdicts)

\* VadStream::flush; last is what the final pass over pending_tail ++ in_buf reports
flush(st, verdicts, last) ==
    LET r == process_ready_windows(st, verdicts)
        window == r.vad.pending_tail + r.vad.in_buf
        start   == r.vad.hist.received - r.vad.in_buf
        cleared == [r.vad EXCEPT !.pending_tail = 0, !.in_buf = 0]
    IN IF ~r.ok THEN r
       ELSE IF window = 0 THEN [r EXCEPT !.vad = cleared]
       ELSE IF last = "fail" THEN [r EXCEPT !.vad = cleared, !.ok = FALSE]
       ELSE IF last = "speech"
       THEN [r EXCEPT !.vad = [cleared EXCEPT
                                 !.out_buf = @ + window,
                                 !.hist = Appended(r.vad, start, window, window)],
                      !.speech = TRUE]
       ELSE [r EXCEPT !.vad = cleared]

\* peek_chunk(frames).is_some()
peek_chunk(st, frames) == st.out_buf - st.out_cursor >= frames

consume_chunk(st, frames) ==
    LET cursor == Min(st.out_cursor + frames, st.out_buf)
    IN IF cursor >= 65536 /\ cursor * 2 >= st.out_buf
       THEN [st EXCEPT !.out_buf = @ - cursor, !.out_cursor = 0]
       ELSE [st EXCEPT !.out_cursor = cursor]

\* peek_remainder().is_some()
peek_remainder(st) == st.out_cursor < st.out_buf

consume_remainder(st) == [st EXCEPT !.out_buf = 0, !.out_cursor = 0]

VadSet(st) ==
    /\ v_in' = st.in_buf
    /\ v_tail' = st.pending_tail
    /\ v_out' = st.out_buf
    /\ v_cursor' = st.out_cursor
    /\ v_hist' = st.hist

\* VadStreamReceiver::new clamps emit_frames to at least 1
VadNew ==
    /\ v_emit = 0
    /\ \E emit_frames \in EmitFramesChoices : v_emit' = Max(emit_frames, 1)
    /\ UNCHANGED <<v_in, v_tail, v_out, v_cursor, v_flushed, v_inner, v_sent,
                   v_received, v_delivered, v_ret, v_shorts, v_flush_calls,
                   v_speech, v_vad_failed, v_hist, v_last,
                   inc_vars, chan_vars, orch_vars, enc_vars, pipe_vars, io_vars>>

\* the sender of the input channel is dropped
VadInnerClose ==
    /\ v_emit > 0
    /\ v_inner = "open"
    /\ v_inner' = "closed"
    /\ UNCHANGED <<v_emit, v_in, v_tail, v_out, v_cursor, v_flushed, v_sent,
                   v_received, v_delivered, v_ret, v_shorts, v_flush_calls,
                   v_speech, v_vad_failed, v_hist, v_last,
                   inc_vars, chan_vars, orch_vars, enc_vars, pipe_vars, io_vars>>

\* recv: a full chunk is buffered; return it
VadRecvChunk ==
    /\ v_emit > 0
    /\ peek_chunk(VadSelf, v_emit)
    /\ VadSet(consume_chunk(VadSelf, v_emit))
    /\ v_ret' = [kind |-> "chunk", len |-> v_emit]
    /\ v_delivered' = v_delivered + v_emit
    /\ UNCHANGED <<v_emit, v_flushed, v_inner, v_sent, v_received, v_shorts,
                   v_flush_calls, v_speech, v_vad_failed, v_last,
                   inc_vars, chan_vars, orch_vars, enc_vars, pipe_vars, io_vars>>

\* recv, after the flush: return what is left, shorter than a chunk
VadRecvRemainder ==
    /\ v_emit > 0
    /\ ~peek_chunk(VadSelf, v_emit)
    /\ v_flushed
    /\ peek_remainder(VadSelf)
    /\ VadSet(consume_remainder(VadSelf))
    /\ v_ret' = [kind |-> "chunk", len |-> v_out - v_cursor]
    /\ v_delivered' = v_delivered + (v_out - v_cursor)
    /\ v_shorts' = v_shorts + 1
    /\ UNCHANGED <<v_emit, v_flushed, v_inner, v_sent, v_received,
                   v_flush_calls, v_speech, v_vad_failed, v_last,
                   inc_vars, chan_vars, orch_vars, enc_vars, pipe_vars, io_vars>>

\* recv, after the flush, with nothing left: the disconnect error
VadRecvDisconnected ==
    /\ v_emit > 0
    /\ ~peek_chunk(VadSelf, v_emit)
    /\ v_flushed
    /\ ~peek_remainder(VadSelf)
    /\ v_ret' = [kind |-> "disconnected", len |-> 0]
    /\ UNCHANGED <<v_emit, v_in, v_tail, v_out, v_cursor, v_flushed, v_inner,
                   v_sent, v_received, v_delivered, v_shorts, v_flush_calls,
                   v_speech, v_vad_failed, v_hist, v_last,
                   inc_vars, chan_vars, orch_vars, enc_vars, pipe_vars, io_vars>>

\* recv: inner.recv() returns a chunk, `self.vad.push(&chunk)?`, loop again
VadRecvPush ==
    /\ v_emit > 0
    /\ ~peek_chunk(VadSelf, v_emit)
    /\ ~v_flushed
    /\ v_inner = "open"
    /\ v_sent < MaxVadChunks
    /\ \E chunk \in VadChunkSizes :
         \E verdicts \in [1..((v_in + chunk) \div window_frames) -> Verdicts] :
            LET r == push(VadSelf, chunk, verdicts)
            IN /\ VadSet(r.vad)
               /\ v_received' = v_received + chunk
               /\ v_last' = [op |-> "push", ok |-> r.ok]
               /\ v_speech' = (v_speech \/ r.speech)
               /\ v_vad_failed' = (v_vad_failed \/ ~r.ok)
               /\ v_ret' = IF r.ok THEN v_ret ELSE [kind |-> "vad_error", len |-> 0]
    /\ v_sent' = v_sent + 1
    /\ UNCHANGED <<v_emit, v_flushed, v_inner, v_delivered, v_shorts, v_flush_calls,
                   inc_vars, chan_vars, orch_vars, enc_vars, pipe_vars, io_vars>>

\* recv: inner.recv() reports the disconnect, `self.vad.flush()?`, flushed = true
VadRecvFlush ==
    /\ v_emit > 0
    /\ ~peek_chunk(VadSelf, v_emit)
    /\ ~v_flushed
    /\ v_inner = "closed"
    /\ \E verdicts \in [1..(v_in \div window_frames) -> Verdicts], last \in Verdicts :
          LET r == flush(VadSelf, verdicts, last)
          IN /\ VadSet(r.vad)
             /\ v_flushed' = r.ok
             /\ v_last' = [op |-> "flush", ok |-> r.ok]
             /\ v_speech' = (v_speech \/ r.speech)
             /\ v_vad_failed' = (v_vad_failed \/ ~r.ok)
             /\ v_ret' = IF r.ok THEN v_ret ELSE [kind |-> "vad_error", len |-> 0]
    /\ v_flush_calls' = v_flush_calls + 1
    /\ UNCHANGED <<v_emit, v_inner, v_sent, v_received, v_delivered, v_shorts,
                   inc_vars, chan_vars, orch_vars, enc_vars, pipe_vars, io_vars>>

VadNext ==
    \/ VadNew
    \/ VadInnerClose
    \/ VadRecvChunk
    \/ VadRecvRemainder
    \/ VadRecvDisconnected
    \/ VadRecvPush
    \/ VadRecvFlush

SpecVad == Init /\ [][VadNext]_vars

\* the receiver has flushed and handed out everything it had
VadDrained == v_flushed /\ v_ret.kind = "disconnected"

\* C22: the VAD stream preserves length: once the input has ended, the flush
\* has run and the output is fully drained, as many samples were returned by
\* recv as were received, whatever the VAD reported for each window (no VAD
\* pass having failed).
C22_VadPreservesLength ==
    (VadDrained /\ ~v_vad_failed) => v_delivered = v_received

\* C23: as long as no VAD pass has detected speech, recv has returned no chunk
\* and no sample, so the backend stream is never fed, and its finish() runs no
\* inference and writes no segment.
C23_SilenceDeliversNothing ==
    ~v_speech =>
        /\ v_delivered = 0
        /\ v_out = 0
        /\ v_shorts = 0
        /\ v_ret.kind # "chunk"
        /\ \A r \in Step([Self EXCEPT !.samples_len = @ + v_delivered], TRUE) :
              ~r.pass.ran /\ r.written = <<>> /\ r.progress = "NoOp"

C23_Witness ==
    /\ ~v_speech
    /\ ~v_vad_failed
    /\ v_received >= 2 * window_frames
    /\ v_received % window_frames # 0
    /\ VadDrained

\* C24: recv returns chunks of exactly emit_frames samples until the flush;
\* the flush is called exactly once; after it come full chunks, then at most
\* one shorter chunk, never an empty one, and once a shorter chunk or the
\* disconnect error has been returned every later recv returns an error.
C24_RecvProtocol ==
    /\ [](/\ v_ret.kind = "chunk" => v_ret.len \in 1..v_emit
          /\ (v_ret.kind = "chunk" /\ ~v_flushed) => v_ret.len = v_emit
          /\ v_shorts <= 1
          /\ v_flush_calls <= 1
          /\ v_flushed => v_flush_calls = 1)
    /\ [][(v_shorts = 1 \/ v_ret.kind = "disconnected") =>
             /\ v_delivered' = v_delivered
             /\ v_ret' # v_ret => v_ret'.kind = "disconnected"]_vars

-----------------------------------------------------------------------------
\* AudioPipeline (src/src/audio_pipeline.rs).  A buffer is its length; a chunk
\* handed to emit is its length.

\* the decoded stream's sample rate and the target_chunk_frames the decoder
\* passes with every call
PipeConfigs == {[rate |-> 16000, target |-> 4], [rate |-> 16000, target |-> 1024],
                [rate |-> 8000, target |-> 1024], [rate |-> 8000, target |-> 1000],
                [rate |-> 48000, target |-> 256]}
\* frames of a decoded packet, and its channels
FrameLens == {10, 2048, 4103}
Channels == {0, 1, 2}

\* what the emit callback answers: true before its from-th call of a pipeline
\* call and ret from then on (from = 0: always true)
NoStop == [from |-> 0, ret |-> "true"]
EmitPlans == {NoStop} \cup {[from |-> k, ret |-> r] : k \in 1..2, r \in {"false", "err"}}

\* rs.input_frames_max() of SincFixedIn::new(.., in_chunk_src_frames, 1)
in_max == in_chunk_src_frames

\* frames rs.process() returns for one block of in_max frames; -1: it fails
OutLens(rate) ==
    LET base == (in_max * TARGET_SAMPLE_RATE) \div rate
    IN {base, base + 1, -1}

\* lengths of the slices of slice::chunks(n)
chunks(len, n) ==
    [i \in 1..((len + n - 1) \div n) |-> Min(n, len - (i - 1) * n)]

\* buf.samples().len() of a packet of `frames` frames
interleaved_len(frames, channels) == frames * channels

\* downmix_to_mono(..).len()
downmix_to_mono(interleaved, channels) ==
    IF channels = 1 THEN interleaved ELSE interleaved \div channels

\* a loop over chunks that goes on when emit returns false
emit_loop_ignoring_stop(cs, n0, plan) ==
    LET stop == IF plan.from = 0 \/ plan.ret = "false" THEN Len(cs) + 1
                ELSE Max(plan.from - n0, 1)
    IN IF stop <= Len(cs)
       THEN [emitted |-> SubSeq(cs, 1, stop), status |-> plan.ret]
       ELSE [emitted |-> cs, status |-> "true"]

\* `for chunk in cs { if !emit(chunk)? { .. } }`: the chunks handed to emit,
\* up to and including the first one it does not answer Ok(true) for, after n0
\* earlier calls of emit
emit_loop(cs, n0, plan) ==
    LET stop == IF plan.from = 0 THEN Len(cs) + 1 ELSE Max(plan.from - n0, 1)
    IN IF stop <= Len(cs)
       THEN [emitted |-> SubSeq(cs, 1, stop), status |-> plan.ret]
       ELSE [emitted |-> cs, status |-> "true"]

\* emit_mono_chunks: `break` on Ok(false), `?` on Err
emit_mono_chunks(mono_16k, chunk_frames, n0, plan) ==
    emit_loop(chunks(mono_16k, chunk_frames), n0, plan)

PipeSelf == [resampler |-> p_resampler, mono_src_acc |-> p_acc]

PipeResult(self, handed, ret, stopped) ==
    [self |-> self, chunks |-> handed, ret |-> ret, stopped |-> stopped]

\* the loop of push_and_flush_resampler, mono_src already appended; outs[i] is
\* what the resampler returns for the i-th block of the call
RECURSIVE push_and_flush_resampler(_, _, _, _, _, _)
push_and_flush_resampler(self, target_chunk_frames, plan, outs, handed, stopped) ==
    IF self.mono_src_acc < in_max THEN PipeResult(self, handed, "ok", stopped)
    ELSE LET drained == [self EXCEPT !.mono_src_acc = @ - in_max]
         IN IF Head(outs) < 0 THEN PipeResult(drained, handed, "err", stopped)
            ELSE LET e == emit_loop(chunks(Head(outs), target_chunk_frames),
                                    Len(handed), plan)
                 IN IF e.status = "err"
                    THEN PipeResult(drained, handed \o e.emitted, "err", FALSE)
                    ELSE IF e.status = "false"
                    THEN PipeResult(drained, handed \o e.emitted, "ok", TRUE)
                    ELSE push_and_flush_resampler(drained, target_chunk_frames, plan,
                                                  Tail(outs), handed \o e.emitted,
                                                  FALSE)

\* AudioPipeline::push_decoded_and_emit
push_decoded_and_emit(self, frames, channels, src_rate, target_chunk_frames, plan, outs) ==
    IF channels = 0 THEN PipeResult(self, <<>>, "err", FALSE)
    ELSE LET mono_src == downmix_to_mono(interleaved_len(frames, channels), channels)
         IN IF src_rate = TARGET_SAMPLE_RATE
            THEN LET e == emit_mono_chunks(mono_src, target_chunk_frames, 0, plan)
                 IN PipeResult(self, e.emitted,
                               IF e.status = "err" THEN "err" ELSE "ok",
                               e.status = "false")
            ELSE push_and_flush_resampler(
                     [self EXCEPT !.resampler = TRUE, !.mono_src_acc = @ + mono_src],
                     target_chunk_frames, plan, outs, <<>>, FALSE)

\* the `while` loop of finalize over the zero-padded accumulator
RECURSIVE finalize_blocks(_, _, _, _, _, _)
finalize_blocks(self, target_chunk_frames, plan, outs, handed, stopped) ==
    IF self.mono_src_acc = 0 THEN PipeResult(self, handed, "ok", stopped)
    ELSE LET drained == [self EXCEPT !.mono_src_acc = @ - in_max]
         IN IF Head(outs) < 0 THEN PipeResult(drained, handed, "err", stopped)
            ELSE LET e == emit_mono_chunks(Head(outs), target_chunk_frames,
                                           Len(handed), plan)
                 IN IF e.status = "err"
                    THEN PipeResult(drained, handed \o e.emitted, "err", stopped)
                    ELSE finalize_blocks(drained, target_chunk_frames, plan,
                                         Tail(outs), handed \o e.emitted,
                                         stopped \/ e.status = "false")

\* a finalize that feeds whole blocks only and leaves the residual unpadded
finalize_without_padding(self, target_chunk_frames, plan, outs) ==
    IF ~self.resampler \/ self.mono_src_acc = 0
    THEN PipeResult(self, <<>>, "ok", FALSE)
    ELSE push_and_flush_resampler(self, target_chunk_frames, plan, outs, <<>>, FALSE)

\* AudioPipeline::finalize
finalize(self, target_chunk_frames, plan, outs) ==
    IF ~self.resampler \/ self.mono_src_acc = 0
    THEN PipeResult(self, <<>>, "ok", FALSE)
    ELSE LET rem == self.mono_src_acc % in_max
             padded == IF rem # 0 THEN self.mono_src_acc + (in_max - rem)
                       ELSE self.mono_src_acc
         IN finalize_blocks([self EXCEPT !.mono_src_acc = padded],
                            target_chunk_frames, plan, outs, <<>>, FALSE)

PipeSet(op, frames, plan, r) ==
    /\ p_resampler' = r.self.resampler
    /\ p_acc' = r.self.mono_src_acc
    /\ p_calls' = p_calls + 1
    /\ p_last' = [op |-> op, frames |-> frames, plan |-> plan, chunks |-> r.chunks,
                  ret |-> r.ret, stopped |-> r.stopped, acc0 |-> p_acc,
                  after_stop |-> p_last.stopped,
                  prev |-> [op |-> p_last.op, acc0 |-> p_last.acc0]]
    /\ UNCHANGED <<p_cfg, inc_vars, chan_vars, orch_vars, enc_vars, vad_vars, io_vars>>

\* the decoder opens a stream of some sample rate
PipeOpen ==
    /\ p_cfg = NoConfig
    /\ p_cfg' \in PipeConfigs
    /\ UNCHANGED <<p_resampler, p_acc, p_calls, p_last,
                   inc_vars, chan_vars, orch_vars, enc_vars, vad_vars, io_vars>>

\* the decoder pushes a decoded packet; an error ends the decode
PipePush ==
    /\ p_cfg # NoConfig
    /\ p_last.op # "finalize"
    /\ p_last.ret = "ok"
    /\ p_calls < MaxPipeCalls
    /\ \E frames \in FrameLens, channels \in Channels, plan \in EmitPlans :
         LET blocks == IF p_cfg.rate = TARGET_SAMPLE_RATE \/ channels = 0 THEN 0
                       ELSE (p_acc + frames) \div in_max
         IN \E outs \in [1..blocks -> OutLens(p_cfg.rate)] :
               PipeSet("push", frames, plan,
                       push_decoded_and_emit(PipeSelf, frames, channels, p_cfg.rate,
                                             p_cfg.target, plan, outs))

\* at the end of the stream the decoder calls finalize
PipeFinalize ==
    /\ p_cfg # NoConfig
    /\ p_last.op # "finalize"
    /\ p_last.ret = "ok"
    /\ \E plan \in EmitPlans :
         LET blocks == IF p_resampler THEN (p_acc + in_max - 1) \div in_max ELSE 0
         IN \E outs \in [1..blocks -> OutLens(p_cfg.rate)] :
               PipeSet("finalize", 0, plan, finalize(PipeSelf, p_cfg.target, plan, outs))

\* finalize is called once more after it returned Ok
PipeFinalizeAgain ==
    /\ p_last.op = "finalize"
    /\ p_last.ret = "ok"
    /\ p_calls <= MaxPipeCalls + 1
    /\ \E plan \in EmitPlans :
         LET blocks == IF p_resampler THEN (p_acc + in_max - 1) \div in_max ELSE 0
         IN \E outs \in [1..blocks -> OutLens(p_cfg.rate)] :
               PipeSet("finalize", 0, plan, finalize(PipeSelf, p_cfg.target, plan, outs))

PipeNext == PipeOpen \/ PipePush \/ PipeFinalize \/ PipeFinalizeAgain

SpecPipe == Init /\ [][PipeNext]_vars

\* the last call was a push_decoded_and_emit that took the resampling path
ResampledPush ==
    p_last.op = "push" /\ p_cfg.rate # TARGET_SAMPLE_RATE /\ p_resampler

\* C25: every chunk push_decoded_and_emit hands to emit has exactly
\* target_chunk_frames samples (a shorter chunk comes from finalize only).
C25_PushEmitsFullChunksOnly ==
    p_last.op = "push" =>
        \A i \in DOMAIN p_last.chunks : p_last.chunks[i] = p_cfg.target

C27_AccumulatorBelowBlock ==
    (ResampledPush /\ p_last.ret = "ok") => p_acc <= in_max - 1

-----------------------------------------------------------------------------
\* Pacing of the inference runs of a live stream

\* C31: when two on_samples calls in a row both run the backend, the window
\* of the later run is at least min_window_samples longer than the window the
\* earlier run left behind, whatever the backend answered.
C31_RunsSpacedByMinWindow ==
    [][(/\ phase = "live" /\ phase' = "live"
        /\ n_chunks' = n_chunks + 1
        /\ last_pass.ran /\ last_pass'.ran) =>
          last_pass'.win_len >= window_len + min_window_samples]_vars
-----------------------------------------------------------------------------
\* Windowing of the VAD stream

\* the step is a VadStream::push made by recv
PushStep == v_sent' = v_sent + 1

\* the number of whole windows the push of this step could cut
PushWindows == (v_in + (v_received' - v_received)) \div window_frames

-----------------------------------------------------------------------------
\* Order and multiplicity of the samples that pass the VAD stream

\* the step is a recv that returned a full chunk through consume_chunk
ChunkStep == v_delivered' > v_delivered /\ v_shorts' = v_shorts

\* C40: the VAD stream never duplicates or reorders audio.  Every append to
\* out_buf starts at or after the last input sample appended before it, so each
\* input sample is appended at most once and in input order; what was appended
\* is either delivered or still waiting behind out_cursor; out_cursor never
\* passes the end of out_buf, and consume_chunk, compaction included, removes
\* exactly the samples recv returned.
C40_NoDuplicationNoReordering ==
    /\ [](/\ v_cursor <= v_out
          /\ v_hist.ordered
          /\ v_hist.out_hi <= v_received
          /\ v_hist.appended <= v_received
          /\ v_delivered + (v_out - v_cursor) = v_hist.appended)
    /\ [][ChunkStep =>
            /\ v_delivered' - v_delivered = v_emit
            /\ v_out' - v_cursor' = (v_out - v_cursor) - v_emit
            /\ v_cursor' \in {0, v_cursor + v_emit}]_vars

\* consume_chunk has just compacted out_buf while samples were still waiting
\* in it, after more than one window with speech was appended
C40_Witness ==
    /\ ~v_flushed
    /\ v_ret.kind = "chunk"
    /\ v_delivered >= 65536
    /\ v_cursor = 0
    /\ v_out > 0
    /\ v_tail = holdback_frames
-----------------------------------------------------------------------------
\* The end-of-stream flush of the audio pipeline

\* the step is a call of finalize
FinalizeStep == p_calls' = p_calls + 1 /\ p_last'.op = "finalize"

\* blocks of in_max samples the accumulator fills once it is zero-padded
PaddedBlocks(acc) == (acc + in_max - 1) \div in_max

\* C33: a finalize that returns Ok leaves the accumulator empty: with a
\* resampler and a non-empty accumulator the residual is padded to whole blocks
\* of in_max samples and every block is resampled and handed on, also after
\* emit answered Ok(false); without a resampler or with an empty accumulator
\* finalize hands nothing to emit and changes no state, so a second finalize
\* does nothing.
C33_FinalizeDrains ==
    /\ []((p_last.op = "finalize" /\ p_last.ret = "ok") =>
            /\ p_acc = 0
            /\ (p_resampler /\ p_last.acc0 > 0 /\ p_last.plan = NoStop) =>
                 LET blocks == PaddedBlocks(p_last.acc0)
                     base   == (in_max * TARGET_SAMPLE_RATE) \div p_cfg.rate
                 IN /\ Len(p_last.chunks) >= blocks * Len(chunks(base, p_cfg.target))
                    /\ Len(p_last.chunks) <= blocks * Len(chunks(base + 1, p_cfg.target))
            /\ (p_resampler /\ p_last.acc0 > 0 /\ p_last.plan.ret = "false") =>
                 Len(p_last.chunks) >= PaddedBlocks(p_last.acc0))
    /\ [][FinalizeStep =>
            /\ (~p_resampler \/ p_acc = 0) =>
                 /\ p_last'.chunks = <<>>
                 /\ p_last'.ret = "ok"
                 /\ p_acc' = p_acc
                 /\ p_resampler' = p_resampler
            /\ (p_last.op = "finalize" /\ p_last.ret = "ok") =>
                 /\ p_last'.chunks = <<>>
                 /\ p_acc' = p_acc
                 /\ p_resampler' = p_resampler]_vars

\* a second finalize, after the first one padded and drained a residual, has
\* handed nothing to emit
C33_Witness ==
    /\ p_last.op = "finalize"
    /\ p_last.prev.op = "finalize"
    /\ p_last.prev.acc0 % in_max # 0
    /\ p_resampler
    /\ p_last.chunks = <<>>
    /\ p_acc = 0
-----------------------------------------------------------------------------
\* The decoder thread when the consumer drops the receiver

\* the steps of the decoder thread
DecoderThread == DecodeChunk \/ SendOk \/ SendDisconnected \/ DecodeEnd

\* the decoder thread is scheduled: it is not held back for ever while one of
\* its steps stays possible
SpecChannelFair == SpecChannel /\ WF_vars(DecoderThread)

\* C34: once the consumer has dropped the receiver, no send completes any
\* more; a send that is pending then, also one blocked on a full queue, and
\* the next send the decoder starts fail with the disconnect error, so the
\* decoder thread always comes to an end instead of staying blocked in send.
C34_DroppedReceiverEndsDecoder ==
    /\ [][rx_state = "dropped" => tx_sent' = tx_sent]_vars
    /\ [](tx_state = "failed" => sink_ret = "err" /\ rx_state = "dropped")
    /\ (rx_state = "dropped" /\ tx_state = "sending") ~> (tx_state = "failed")
    /\ (rx_state = "dropped") ~> (tx_state \in {"failed", "done"})

\* the receiver was dropped while the decoder was blocked on the full queue,
\* and the blocked send has failed
C34_Witness ==
    /\ rx_state = "dropped"
    /\ tx_state = "failed"
    /\ sink_ret = "err"
    /\ tx_sent = rx_count + CHANNEL_BOUND
-----------------------------------------------------------------------------
\* The decoder thread when transcribe returns

\* C39: when transcribe has returned, the decoder thread has ended and has
\* been joined.
C39_ReturnsOnlyAfterJoin ==
    o_pc = "done" => (o_dec # "running" /\ o_decode_res # Pending)
-----------------------------------------------------------------------------
\* Scribble::transcribe with voice activity detection enabled: rx is a
\* VadStreamReceiver, whose recv also fails when a VAD pass fails.

\* rx.recv() returns the VAD error of a push (for a chunk taken from the
\* channel) or of the flush (after the disconnect); `while let Ok(..)` ends
RecvVadError ==
    /\ o_pc = "recv"
    /\ \/ o_queue > 0 /\ o_queue' = o_queue - 1
       \/ o_queue = 0 /\ o_dec # "running" /\ UNCHANGED o_queue
    /\ o_log' = Append(o_log, "vad_error")
    /\ o_pc' = "finish"
    /\ UNCHANGED <<o_dec, o_made, o_stopped, o_after_stop,
                   o_finish_res, o_decode_res, o_run_res, o_close_res, o_result,
                   inc_vars, chan_vars, enc_vars, vad_vars, pipe_vars, io_vars>>

OrchVadNext == OrchNext \/ RecvVadError

SpecOrchVad == Init /\ [][OrchVadNext]_vars

\* C38: a transcribe whose consume loop was ended by a VAD error returns an
\* error.
C38_VadErrorFailsTranscribe ==
    (o_pc = "done" /\ \E i \in DOMAIN o_log : o_log[i] = "vad_error") => o_result # Ok

-----------------------------------------------------------------------------
\* The channel when rx is a VadStreamReceiver: the consumer leaves the loop on
\* a VAD error and goes on to join while it still owns the receiver.

\* rx.recv() fails in the VAD pass over a chunk just taken from the channel,
\* or in the flush after the disconnect; stream.finish() runs and the consumer
\* calls decode_handle.join()
ConsumerVadError ==
    /\ rx_state = "receiving"
    /\ \/ /\ queue # <<>>
          /\ rx_count < MaxRecvs
          /\ rx_last' = recv(queue).chunk
          /\ queue' = recv(queue).rest
          /\ rx_count' = rx_count + 1
       \/ /\ queue = <<>>
          /\ tx_state \in {"done", "failed"}
          /\ UNCHANGED <<queue, rx_count, rx_last>>
    /\ rx_state' = "joining"
    /\ UNCHANGED <<tx_state, tx_sent, sink_ret, inc_vars, orch_vars, enc_vars,
                   vad_vars, pipe_vars, io_vars>>

\* decode_handle.join() returns once the decoder thread has ended; transcribe
\* returns and rx is dropped
ConsumerJoin ==
    /\ rx_state \in {"joining", "disconnected"}
    /\ tx_state \in {"done", "failed"}
    /\ rx_state' = "returned"
    /\ UNCHANGED <<queue, tx_state, tx_sent, rx_count, rx_last, sink_ret, inc_vars,
                   orch_vars, enc_vars, vad_vars, pipe_vars, io_vars>>

ChanVadNext == ChanNext \/ ConsumerVadError \/ ConsumerJoin

SpecChannelVad == Init /\ [][ChanVadNext]_vars

\* C37: the consumer never waits in join while the decoder thread is blocked
\* in a send into a full queue that nobody drains.
C37_NoJoinOnBlockedDecoder ==
    ~(/\ rx_state = "joining"
      /\ tx_state = "sending"
      /\ Len(queue) = CHANNEL_BOUND)
-----------------------------------------------------------------------------
\* PipeReceiver (src/src/pipe_reader/receiver.rs).  A chunk and a buffer are
\* their lengths.

MinItemsChoices == {0, 1, 3}
PipeRxChunkLens == {0, 1, 2}

\* what process_items may return for `input` items: as many items, none, or
\* an error (-1)
ProcessOutcomes(input) == {input, 0, -1}

PipeRxNew ==
    /\ r_pc = "new"
    /\ r_min' \in MinItemsChoices
    /\ r_pc' = "idle"
    /\ UNCHANGED <<r_queue, r_tx, r_sent, r_in, r_eof, r_ret, r_calls, r_fed,
                   prefix_vars, inc_vars, chan_vars, orch_vars, enc_vars, vad_vars,
                   pipe_vars>>

\* the sender sends a chunk
PipeRxSend ==
    /\ r_pc # "new"
    /\ r_tx = "open"
    /\ r_sent < MaxPipeRxChunks
    /\ \E len \in PipeRxChunkLens : r_queue' = Append(r_queue, len)
    /\ r_sent' = r_sent + 1
    /\ UNCHANGED <<r_pc, r_min, r_tx, r_in, r_eof, r_ret, r_calls, r_fed,
                   prefix_vars, inc_vars, chan_vars, orch_vars, enc_vars, vad_vars,
                   pipe_vars>>

\* the sender is dropped
PipeRxClose ==
    /\ r_pc # "new"
    /\ r_tx = "open"
    /\ r_tx' = "closed"
    /\ UNCHANGED <<r_pc, r_min, r_queue, r_sent, r_in, r_eof, r_ret, r_calls, r_fed,
                   prefix_vars, inc_vars, chan_vars, orch_vars, enc_vars, vad_vars,
                   pipe_vars>>

\* recv is called
PipeRxCall ==
    /\ r_pc = "idle"
    /\ r_calls < MaxPipeRxCalls
    /\ r_calls' = r_calls + 1
    /\ r_pc' = "fill"
    /\ UNCHANGED <<r_min, r_queue, r_tx, r_sent, r_in, r_eof, r_ret, r_fed,
                   prefix_vars, inc_vars, chan_vars, orch_vars, enc_vars, vad_vars,
                   pipe_vars>>

\* fill_in_buf: rx.recv() returns Ok(chunk)
PipeRxFillChunk ==
    /\ r_pc = "fill"
    /\ ~r_eof /\ r_in < r_min
    /\ r_queue # <<>>
    /\ r_in' = r_in + Head(r_queue)
    /\ r_queue' = Tail(r_queue)
    /\ r_fed' = [r_fed EXCEPT !.received = @ + Head(r_queue)]
    /\ UNCHANGED <<r_pc, r_min, r_tx, r_sent, r_eof, r_ret, r_calls,
                   prefix_vars, inc_vars, chan_vars, orch_vars, enc_vars, vad_vars,
                   pipe_vars>>

\* fill_in_buf: rx.recv() returns Err, the channel is closed and empty
PipeRxFillEof ==
    /\ r_pc = "fill"
    /\ ~r_eof /\ r_in < r_min
    /\ r_queue = <<>> /\ r_tx = "closed"
    /\ r_eof' = TRUE
    /\ UNCHANGED <<r_pc, r_min, r_queue, r_tx, r_sent, r_in, r_ret, r_calls, r_fed,
                   prefix_vars, inc_vars, chan_vars, orch_vars, enc_vars, vad_vars,
                   pipe_vars>>

\* fill_in_buf returns: the `while` condition is false
PipeRxFillDone ==
    /\ r_pc = "fill"
    /\ r_eof \/ r_in >= r_min
    /\ r_pc' = "check"
    /\ UNCHANGED <<r_min, r_queue, r_tx, r_sent, r_in, r_eof, r_ret, r_calls, r_fed,
                   prefix_vars, inc_vars, chan_vars, orch_vars, enc_vars, vad_vars,
                   pipe_vars>>

\* the rest of one turn of recv's loop
PipeRxCheck ==
    /\ r_pc = "check"
    /\ IF r_in = 0 /\ r_eof
       THEN /\ r_ret' = [kind |-> "broken_pipe", len |-> 0]
            /\ r_pc' = "idle"
            /\ UNCHANGED <<r_in, r_fed>>
       ELSE IF r_in >= r_min \/ r_eof
       THEN /\ r_in' = 0
            /\ r_fed' = [r_fed EXCEPT !.processed = @ + r_in]
            /\ \E processed \in ProcessOutcomes(r_in) :
                 IF processed < 0
                 THEN r_ret' = [kind |-> "err", len |-> 0] /\ r_pc' = "idle"
                 ELSE IF processed = 0
                 THEN IF r_eof
                      THEN r_ret' = [kind |-> "broken_pipe", len |-> 0] /\ r_pc' = "idle"
                      ELSE r_pc' = "fill" /\ UNCHANGED r_ret
                 ELSE r_ret' = [kind |-> "ok", len |-> processed] /\ r_pc' = "idle"
       ELSE r_pc' = "fill" /\ UNCHANGED <<r_in, r_fed, r_ret>>
    /\ UNCHANGED <<r_min, r_queue, r_tx, r_sent, r_eof, r_calls,
                   prefix_vars, inc_vars, chan_vars, orch_vars, enc_vars, vad_vars,
                   pipe_vars>>

\* the steps of the thread that calls recv
PipeRxRecv == PipeRxFillChunk \/ PipeRxFillEof \/ PipeRxFillDone \/ PipeRxCheck

PipeRxNext ==
    \/ PipeRxNew
    \/ PipeRxSend
    \/ PipeRxClose
    \/ PipeRxCall
    \/ PipeRxFillChunk
    \/ PipeRxFillEof
    \/ PipeRxFillDone
    \/ PipeRxCheck

\* the thread inside recv is scheduled
SpecPipeRx == Init /\ [][PipeRxNext]_vars /\ WF_vars(PipeRxRecv)

\* C35: for every min_items, a recv that is running when the sender is gone
\* returns.
C35_RecvReturnsAfterDisconnect ==
    (r_tx = "closed" /\ r_pc \in {"fill", "check"}) ~> (r_pc = "idle")
-----------------------------------------------------------------------------
\* get_prefix_bytes (src/src/bin/scribble-server/main.rs).  The k-th byte of a
\* request body is the number k; an item of the body stream is a chunk of
\* bytes or an error.

ErrItem == [err |-> TRUE, data |-> <<>>]
Chunk(bytes) == [err |-> FALSE, data |-> bytes]

\* the body whose i-th item has lens[i] bytes, or is an error where lens[i] < 0
RECURSIVE BodyOf(_, _)
BodyOf(lens, first) ==
    IF lens = <<>> THEN <<>>
    ELSE IF Head(lens) < 0 THEN <<ErrItem>> \o BodyOf(Tail(lens), first)
    ELSE <<Chunk([i \in 1..Head(lens) |-> first + i - 1])>>
           \o BodyOf(Tail(lens), first + Head(lens))

BodyShapes ==
    UNION {[1..n -> (-1)..MaxChunkBytes] : n \in 0..MaxBodyChunks}

\* the bytes of a sequence of items in order, an error item showing as 0
RECURSIVE Flat(_)
Flat(items) ==
    IF items = <<>> THEN <<>>
    ELSE (IF Head(items).err THEN <<0>> ELSE Head(items).data) \o Flat(Tail(items))

\* chunk.slice(from..to)
slice(chunk, from, to) == SubSeq(chunk, from + 1, to)

\* a replay that puts the tail of the split chunk behind the rest of the body
replay_tail_after_rest(tail, body_stream) == body_stream \o <<Chunk(tail)>>

\* tail_stream.chain(body_stream)
replay_tail(tail, body_stream) == <<Chunk(tail)>> \o body_stream

ProbeResult(status, prefix_bytes, prefix_chunks, body_stream) ==
    [status |-> status, prefix_bytes |-> prefix_bytes,
     prefix_chunks |-> prefix_chunks, body_stream |-> body_stream]

\* the `while` loop of get_prefix_bytes
RECURSIVE probe_loop(_, _, _, _)
probe_loop(prefix_bytes, prefix_chunks, body_stream, max_probe_bytes) ==
    IF ~(Len(prefix_bytes) < max_probe_bytes) \/ body_stream = <<>>
    THEN ProbeResult("ok", prefix_bytes, prefix_chunks, body_stream)
    ELSE LET item == Head(body_stream)
             rest == Tail(body_stream)
             chunk == item.data
             remaining == max_probe_bytes - Len(prefix_bytes)
         IN IF item.err
            THEN ProbeResult("bad_request", <<>>, <<>>, <<>>)
            ELSE IF chunk = <<>>
            THEN probe_loop(prefix_bytes, prefix_chunks, rest, max_probe_bytes)
            ELSE IF Len(chunk) <= remaining
            THEN probe_loop(prefix_bytes \o chunk, Append(prefix_chunks, chunk),
                            rest, max_probe_bytes)
            ELSE ProbeResult("ok",
                             prefix_bytes \o slice(chunk, 0, remaining),
                             Append(prefix_chunks, slice(chunk, 0, remaining)),
                             replay_tail(slice(chunk, remaining, Len(chunk)), rest))

get_prefix_bytes(body_stream, max_probe_bytes) ==
    LET r == probe_loop(<<>>, <<>>, body_stream, max_probe_bytes)
    IN IF r.status = "ok" /\ r.prefix_bytes = <<>>
       THEN ProbeResult("empty", <<>>, <<>>, <<>>)
       ELSE r

\* the bytes StreamReader yields from a stream, up to its first error
RECURSIVE read_to_end(_)
read_to_end(items) ==
    IF items = <<>> \/ Head(items).err THEN <<>>
    ELSE Head(items).data \o read_to_end(Tail(items))

\* a request arrives and its body is probed
PrefixProbe ==
    /\ b_res.status = "none"
    /\ \E lens \in BodyShapes, max_probe_bytes \in 0..MaxProbeBytes :
          /\ b_body' = BodyOf(lens, 1)
          /\ b_max' = max_probe_bytes
          /\ b_res' = get_prefix_bytes(BodyOf(lens, 1), max_probe_bytes)
    /\ UNCHANGED <<b_read, rx_vars, inc_vars, chan_vars, orch_vars, enc_vars,
                   vad_vars, pipe_vars>>

\* transcription reads prefix_chunks chained with the returned stream
PrefixReplay ==
    /\ b_res.status = "ok"
    /\ ~b_read.done
    /\ LET prefix_stream == [i \in DOMAIN b_res.prefix_chunks |->
                                Chunk(b_res.prefix_chunks[i])]
           input_stream == prefix_stream \o b_res.body_stream
       IN b_read' = [done |-> TRUE, bytes |-> read_to_end(input_stream)]
    /\ UNCHANGED <<b_body, b_max, b_res, rx_vars, inc_vars, chan_vars, orch_vars,
                   enc_vars, vad_vars, pipe_vars>>

PrefixNext == PrefixProbe \/ PrefixReplay

SpecPrefix == Init /\ [][PrefixNext]_vars

\* C36: when get_prefix_bytes returns Ok, prefix_bytes has at most
\* max_probe_bytes bytes and is the concatenation of prefix_chunks, none of
\* which is empty; prefix_chunks followed by the returned stream carry the
\* bytes (and errors) of the body in their order, the tail of a split chunk
\* coming first in the stream, and the reader of that chain reads the body
\* from its first byte; a body without bytes yields an error.
C36_PrefixReplaysBody ==
    /\ b_res.status = "ok" =>
          LET prefix_stream == [i \in DOMAIN b_res.prefix_chunks |->
                                   Chunk(b_res.prefix_chunks[i])]
          IN /\ Len(b_res.prefix_bytes) <= b_max
             /\ b_res.prefix_bytes = Flat(prefix_stream)
             /\ \A i \in DOMAIN b_res.prefix_chunks : b_res.prefix_chunks[i] # <<>>
             /\ Flat(prefix_stream \o b_res.body_stream) = Flat(b_body)
             /\ b_res.prefix_bytes = [i \in 1..Len(b_res.prefix_bytes) |-> i]
    /\ (b_res.status # "none" /\ read_to_end(b_body) = <<>>) =>
          b_res.status \in {"empty", "bad_request"}
    /\ (b_res.status # "none" /\ Flat(b_body) = <<>>) => b_res.status = "empty"
    /\ b_read.done => b_read.bytes = read_to_end(b_body)

\* an empty chunk was skipped, the next chunk was larger than the probe limit
\* and was split, its tail heads the returned stream, and the chain was read
C36_Witness ==
    /\ b_res.status = "ok"
    /\ b_read.done
    /\ Len(b_body) = 3
    /\ b_body[1] = Chunk(<<>>)
    /\ Len(b_body[2].data) > b_max
    /\ Len(b_res.prefix_bytes) = b_max
    /\ Len(b_res.prefix_chunks) = 1
    /\ Len(b_res.body_stream) = 2
    /\ b_res.body_stream[1].data # <<>>
    /\ b_read.bytes = Flat(b_body)

====
